---- MODULE Spec2Model ----
(***************************************************************************)
(* Transcript quality check (src/python/transcript_quality_check.py).      *)
(*                                                                         *)
(* A text is a sequence of one-character strings.  Offsets are Python's:  *)
(* 0-based, a span is [start, end).  The characters that cannot be written *)
(* in a TLA+ string are named: "BOM" is U+FEFF, "LDQ"/"RDQ" are the curly  *)
(* double quotes, "LSQ"/"RSQ" the curly single quotes.                     *)
(***************************************************************************)
EXTENDS Integers, Sequences, FiniteSets

(***************************************************************************)
(* Characters and the str methods the program uses                         *)
(***************************************************************************)
LowerLetters ==
    <<"a","b","c","d","e","f","g","h","i","j","k","l","m",
      "n","o","p","q","r","s","t","u","v","w","x","y","z">>

UpperLetters ==
    <<"A","B","C","D","E","F","G","H","I","J","K","L","M",
      "N","O","P","Q","R","S","T","U","V","W","X","Y","Z">>

Digits == {"0","1","2","3","4","5","6","7","8","9"}

UpperSet == {UpperLetters[i] : i \in 1..26}

\* the characters matched by \w
WordChars == {LowerLetters[i] : i \in 1..26} \cup UpperSet \cup Digits \cup {"_"}

\* the characters removed by str.strip() without argument, matched by \s
Whitespace == {" ", "\t", "\r", "\n"}

LowerMap == [c \in UpperSet |-> LowerLetters[CHOOSE i \in 1..26 : UpperLetters[i] = c]]

LowerChar(c) == IF c \in UpperSet THEN LowerMap[c] ELSE c

\* str.lower()
Lower(s) == [i \in 1..Len(s) |-> LowerChar(s[i])]

\* s[a:b] for 0 <= a and b <= len(s)
Slice(s, a, b) == SubSeq(s, a + 1, b)

\* the least x in lo..hi with P(x), hi + 1 when there is none
Least(lo, hi, P(_)) ==
    IF \E x \in lo..hi : P(x)
    THEN CHOOSE x \in lo..hi : P(x) /\ \A y \in lo..(x - 1) : ~P(y)
    ELSE hi + 1

\* the greatest x in lo..hi with P(x), lo - 1 when there is none
Greatest(lo, hi, P(_)) ==
    IF \E x \in lo..hi : P(x)
    THEN CHOOSE x \in lo..hi : P(x) /\ \A y \in (x + 1)..hi : ~P(y)
    ELSE lo - 1

\* the first offset k >= i whose character s[k] is not in set (len(s) if none):
\* where a loop "while k < len(s) and s[k] in set: k += 1" stops
SkipFwd(s, set, i) ==
    LET Stop(k) == s[k + 1] \notin set
    IN  Least(i, Len(s) - 1, Stop)

\* the least e <= i such that every character of s[e:i] is in set:
\* where a loop "while e > 0 and s[e - 1] in set: e -= 1" stops
SkipBack(s, set, i) ==
    LET Stop(k) == s[k] \notin set
    IN  Greatest(1, i, Stop)

\* str.lstrip(set), str.rstrip(set), str.strip(set)
LStrip(s, set) == Slice(s, SkipFwd(s, set, 0), Len(s))

RStrip(s, set) == Slice(s, 0, SkipBack(s, set, Len(s)))

Strip(s, set) == RStrip(LStrip(s, set), set)

RECURSIVE PickRange(_, _, _, _)
\* [vals[i] for i in lo..hi if keep[i]], by halves
PickRange(vals, keep, lo, hi) ==
    IF lo > hi THEN <<>>
    ELSE IF lo = hi THEN (IF keep[lo] THEN <<vals[lo]>> ELSE <<>>)
    ELSE LET mid == (lo + hi) \div 2
         IN  PickRange(vals, keep, lo, mid) \o PickRange(vals, keep, mid + 1, hi)

RECURSIVE Flatten(_, _, _)
\* pieces[lo] + ... + pieces[hi], by halves
Flatten(pieces, lo, hi) ==
    IF lo > hi THEN <<>>
    ELSE IF lo = hi THEN pieces[lo]
    ELSE LET mid == (lo + hi) \div 2
         IN  Flatten(pieces, lo, mid) \o Flatten(pieces, mid + 1, hi)

\* needle in s
Contains(s, needle) ==
    \E i \in 0..(Len(s) - Len(needle)) :
        \A k \in 1..Len(needle) : s[i + k] = needle[k]

\* s.endswith(c) for a one-character c
EndsWithChar(s, c) == Len(s) > 0 /\ s[Len(s)] = c

(***************************************************************************)
(* Module constants                                                        *)
(***************************************************************************)

INTRO_TRIGGERS ==
    << <<"o","k","a","y",","," ","h","e","r","e"," ","i","s"," ","t","h","e"," ","t","r","a","n","s","c","r","i","p","t","i","o","n"," ","o","f"," ","t","h","e"," ","t","e","x","t"," ","f","r","o","m"," ","t","h","e"," ","i","m","a","g","e">>,
       <<"o","k","a","y",","," ","h","e","r","e"," ","i","s"," ","t","h","e"," ","t","r","a","n","s","c","r","i","p","t","i","o","n"," ","o","f"," ","t","h","e"," ","t","e","x","t">>,
       <<"h","e","r","e"," ","i","s"," ","t","h","e"," ","t","r","a","n","s","c","r","i","p","t","i","o","n"," ","o","f"," ","t","h","e"," ","t","e","x","t">>,
       <<"h","e","r","e"," ","i","s"," ","t","h","e"," ","t","e","x","t"," ","t","r","a","n","s","c","r","i","p","t","i","o","n">>,
       <<"h","e","r","e"," ","i","s"," ","t","h","e"," ","t","r","a","n","s","c","r","i","p","t","i","o","n">>,
       <<"h","e","r","e"," ","i","s"," ","t","h","e"," ","t","e","x","t"," ","f","r","o","m"," ","t","h","e"," ","i","m","a","g","e">>,
       <<"t","h","e"," ","t","r","a","n","s","c","r","i","p","t","i","o","n"," ","f","r","o","m"," ","t","h","e"," ","i","m","a","g","e"," ","i","s">> >>

OUTRO_TRIGGERS ==
    << <<"t","h","a","n","k"," ","y","o","u",","," ","w","o","u","l","d"," ","y","o","u"," ","l","i","k","e"," ","m","e"," ","t","o"," ","t","r","a","n","s","c","r","i","b","e"," ","a","n","o","t","h","e","r"," ","i","m","a","g","e">>,
       <<"t","h","a","n","k"," ","y","o","u",","," ","a","n","y","t","h","i","n","g"," ","e","l","s","e"," ","y","o","u"," ","n","e","e","d">>,
       <<"t","h","a","n","k"," ","y","o","u",","," ","a","n","y","t","h","i","n","g"," ","e","l","s","e"," ","i"," ","c","a","n"," ","h","e","l","p"," ","w","i","t","h">>,
       <<"t","h","e","r","e"," ","y","o","u"," ","g","o",","," ","w","h","a","t"," ","e","l","s","e"," ","w","o","u","l","d"," ","y","o","u"," ","l","i","k","e"," ","m","e"," ","t","o"," ","d","o">>,
       <<"t","h","e","r","e"," ","y","o","u"," ","g","o",","," ","a","n","y","t","h","i","n","g"," ","e","l","s","e"," ","y","o","u"," ","n","e","e","d">>,
       <<"l","e","t"," ","m","e"," ","k","n","o","w"," ","i","f"," ","y","o","u"," ","n","e","e","d"," ","a","n","y","t","h","i","n","g"," ","e","l","s","e">>,
       <<"l","e","t"," ","m","e"," ","k","n","o","w"," ","i","f"," ","y","o","u"," ","n","e","e","d"," ","m","e"," ","t","o"," ","t","r","a","n","s","c","r","i","b","e"," ","a","n","o","t","h","e","r"," ","o","n","e">>,
       <<"l","e","t"," ","m","e"," ","k","n","o","w"," ","i","f"," ","y","o","u"," ","n","e","e","d"," ","m","e"," ","t","o"," ","t","r","a","n","s","c","r","i","b","e"," ","a","n","o","t","h","e","r">>,
       <<"l","e","t"," ","m","e"," ","k","n","o","w"," ","i","f"," ","y","o","u"," ","n","e","e","d"," ","m","e"," ","t","o"," ","t","r","a","n","s","c","r","i","b","e"," ","a","n","o","t","h","e","r"," ","i","m","a","g","e">>,
       <<"p","l","e","a","s","e"," ","a","t","t","a","c","h"," ","m","o","r","e"," ","f","i","l","e","s"," ","i","f"," ","y","o","u"," ","w","a","n","t"," ","m","e"," ","t","o"," ","t","r","a","n","s","c","r","i","b","e">>,
       <<"p","l","e","a","s","e"," ","a","t","t","a","c","h"," ","m","o","r","e"," ","f","i","l","e","s"," ","i","f"," ","y","o","u"," ","w","a","n","t"," ","m","e"," ","t","o"," ","t","r","a","n","s","c","r","i","b","e"," ","a","n","o","t","h","e","r"," ","i","m","a","g","e">>,
       <<"p","l","e","a","s","e"," ","a","t","t","a","c","h"," ","m","o","r","e"," ","f","i","l","e","s"," ","i","f"," ","y","o","u"," ","w","a","n","t"," ","m","e"," ","t","o"," ","c","o","n","t","i","n","u","e">> >>

_LEADING_STRIP == {"BOM", " ", "\t", "\r", "\n", "\"", "'", "LDQ", "RDQ", "LSQ", "RSQ"}

_TRAILING_STRIP == {"BOM", " ", "\t", "\r", "\n", "\"", "'", "LDQ", "RDQ", "LSQ", "RSQ"}

_TRAILING_PUNCT == {"!", "?", ".", ",", "-"}

_MAX_PREFIX_CHARS == 200

_MAX_SUFFIX_CHARS == 200

_MAX_HEURISTIC_CHARS == 240

INTRO_LEADS ==
    { <<"a","l","r","i","g","h","t">>,
      <<"g","r","e","e","t","i","n","g","s">>,
      <<"h","e","l","l","o">>,
      <<"h","e","r","e">>,
      <<"h","e","y">>,
      <<"h","i">>,
      <<"i">>,
      <<"l","e","t">>,
      <<"o","k">>,
      <<"o","k","a","y">>,
      <<"s","u","r","e">>,
      <<"t","h","i","s">>,
      <<"w","e">> }

OUTRO_KEYWORDS ==
    { <<"a","n","o","t","h","e","r">>,
      <<"a","n","y","t","h","i","n","g">>,
      <<"a","s","s","i","s","t">>,
      <<"e","l","s","e">>,
      <<"h","e","l","p">>,
      <<"m","o","r","e">>,
      <<"n","e","e","d">>,
      <<"s","u","p","p","o","r","t">>,
      <<"t","r","a","n","s","c","r","i","b","e">> }

OUTRO_POLITE ==
    { <<"a","p","p","r","e","c","i","a","t","e">>,
      <<"f","e","e","l">>,
      <<"g","l","a","d">>,
      <<"h","a","p","p","y">>,
      <<"l","e","t">>,
      <<"p","l","e","a","s","e">>,
      <<"r","e","a","d","y">>,
      <<"t","h","a","n","k">>,
      <<"t","h","a","n","k","s">> }

(***************************************************************************)
(* Tokenizer                                                               *)
(***************************************************************************)
\* re.finditer(r"\w+", text): the maximal runs of word characters, each with
\* its span [start, end) and its text (group)
_tokenize_with_pos(text) ==
    LET n == Len(text)
        starts == [i \in 1..n |-> text[i] \in WordChars
                                    /\ (i = 1 \/ text[i - 1] \notin WordChars)]
        match == [i \in 1..n |->
                    LET e == SkipFwd(text, WordChars, i - 1)
                    IN  [start |-> i - 1, end |-> e, group |-> Slice(text, i - 1, e)]]
    IN  PickRange(match, starts, 1, n)

\* re.findall(r"\w+", s)
FindAllWords(s) ==
    LET toks == _tokenize_with_pos(s)
    IN  [k \in 1..Len(toks) |-> toks[k].group]

_tokens_from_phrase(phrase) == FindAllWords(Lower(phrase))

_normalize_tokens(segment) == FindAllWords(Lower(segment))

(***************************************************************************)
(* Phrase anchor matcher                                                   *)
(***************************************************************************)
NoMatch == [found |-> FALSE, phrase |-> 0, first_tok |-> 0, last_tok |-> 0,
            start |-> 0, end |-> 0, match_end |-> 0]

\* the characters find_prefix and find_suffix extend a match over
ExtendChars == _LEADING_STRIP \cup _TRAILING_PUNCT \cup {":", ";"}

RECURSIVE PrefixScanUnbounded(_, _, _, _, _, _)
\* the inner loop of find_prefix without the test of the window
PrefixScanUnbounded(text, toks, phrase_tokens, k, j, first) ==
    LET Hit(i) == Lower(toks[i].group) = phrase_tokens[j + 1]
        At(h) ==
            IF h > Len(toks) THEN NoMatch
            ELSE IF j = 0 /\ Strip(Slice(text, 0, toks[h].start), _LEADING_STRIP) # <<>>
                 THEN NoMatch
                 ELSE IF j + 1 = Len(phrase_tokens)
                      THEN [NoMatch EXCEPT !.found = TRUE,
                                !.first_tok = IF j = 0 THEN h ELSE first,
                                !.last_tok = h,
                                !.match_end = toks[h].end,
                                !.end = SkipFwd(text, ExtendChars, toks[h].end)]
                      ELSE PrefixScanUnbounded(text, toks, phrase_tokens, h + 1, j + 1,
                                               IF j = 0 THEN h ELSE first)
    IN  At(Least(k, Len(toks), Hit))

RECURSIVE PrefixScan(_, _, _, _, _, _)
\* The inner loop of find_prefix for one phrase, from the k-th text token on,
\* with j phrase tokens matched so far (first_idx is None exactly when j = 0)
\* and the first of them at token index first.  A token that neither lies
\* beyond the window nor equals the awaited phrase token leaves the loop's
\* variables as they are, so the scan moves to the next token that does.
PrefixScan(text, toks, phrase_tokens, k, j, first) ==
    LET Hit(i) == \/ toks[i].start > _MAX_PREFIX_CHARS
                  \/ Lower(toks[i].group) = phrase_tokens[j + 1]
        At(h) ==
            IF h > Len(toks) THEN NoMatch
            ELSE IF toks[h].start > _MAX_PREFIX_CHARS THEN NoMatch
            ELSE IF j = 0 /\ Strip(Slice(text, 0, toks[h].start), _LEADING_STRIP) # <<>>
                 THEN NoMatch
                 ELSE IF j + 1 = Len(phrase_tokens)
                      THEN [NoMatch EXCEPT !.found = TRUE,
                                !.first_tok = IF j = 0 THEN h ELSE first,
                                !.last_tok = h,
                                !.match_end = toks[h].end,
                                !.end = SkipFwd(text, ExtendChars, toks[h].end)]
                      ELSE PrefixScan(text, toks, phrase_tokens, h + 1, j + 1,
                                      IF j = 0 THEN h ELSE first)
    IN  At(Least(k, Len(toks), Hit))

RECURSIVE PrefixPhrases(_, _, _, _)
\* The outer loop of find_prefix: the phrases from the p-th on, in catalog order.
PrefixPhrases(text, toks, phrases, p) ==
    LET Got(m) == IF m.found THEN [m EXCEPT !.phrase = p]
                  ELSE PrefixPhrases(text, toks, phrases, p + 1)
        Try(phrase_tokens) ==
            IF phrase_tokens = <<>> THEN PrefixPhrases(text, toks, phrases, p + 1)
            ELSE Got(PrefixScan(text, toks, phrase_tokens, 1, 0, 0))
    IN  IF p > Len(phrases) THEN NoMatch
        ELSE Try(_tokens_from_phrase(phrases[p]))

\* find_prefix with the match it rests on: the phrase, the token indices of its
\* first and last matched token, and the returned span [0, end)
PrefixMatch(text, phrases) == PrefixPhrases(text, _tokenize_with_pos(text), phrases, 1)

find_prefix(text, phrases) ==
    LET Span(m) == IF m.found THEN Slice(text, 0, m.end) ELSE <<>>
    IN  Span(PrefixMatch(text, phrases))

\* the tail test without its length limit
TailRejectsAnyLength(tail) ==
    LET Rejects(tail_stripped) ==
            /\ tail_stripped # <<>>
            /\ \/ \E i \in 1..Len(tail_stripped) : tail_stripped[i] = "\n"
               \/ Len(FindAllWords(tail_stripped)) > 16
    IN  Rejects(Strip(tail, _TRAILING_STRIP))

\* The test find_suffix makes on the text after a completed backward match.
TailRejects(tail) ==
    LET Rejects(tail_stripped) ==
            /\ tail_stripped # <<>>
            /\ \/ \E i \in 1..Len(tail_stripped) : tail_stripped[i] = "\n"
               \/ Len(tail_stripped) > 120
               \/ Len(FindAllWords(tail_stripped)) > 16
    IN  Rejects(Strip(tail, _TRAILING_STRIP))

RECURSIVE SuffixScan(_, _, _, _, _, _, _)
\* The inner loop of find_suffix for one phrase, from the k-th text token down,
\* awaiting phrase token j (0-based); match_end = -1 stands for None and last
\* is the token index match_end was taken from.  As in PrefixScan, the scan
\* moves to the next token that leaves the window or equals the awaited one.
SuffixScan(text, toks, phrase_tokens, k, j, match_end, last) ==
    LET Hit(i) == \/ Len(text) - toks[i].end > _MAX_SUFFIX_CHARS
                  \/ Lower(toks[i].group) = phrase_tokens[j + 1]
        Matched(h, me, lt) ==
            IF j - 1 < 0
            THEN IF TailRejects(Slice(text, me, Len(text)))
                 THEN NoMatch
                 ELSE [NoMatch EXCEPT !.found = TRUE,
                           !.first_tok = h,
                           !.last_tok = lt,
                           !.match_end = me,
                           !.start = SkipBack(text, ExtendChars, toks[h].start),
                           !.end = SkipBack(text, _TRAILING_STRIP, Len(text))]
            ELSE SuffixScan(text, toks, phrase_tokens, h - 1, j - 1, me, lt)
        At(h) ==
            IF h < 1 THEN NoMatch
            ELSE IF Len(text) - toks[h].end > _MAX_SUFFIX_CHARS THEN NoMatch
            ELSE Matched(h, IF match_end = -1 THEN toks[h].end ELSE match_end,
                            IF match_end = -1 THEN h ELSE last)
    IN  At(Greatest(1, k, Hit))

RECURSIVE SuffixPhrases(_, _, _, _)
\* The outer loop of find_suffix: the phrases from the p-th on, in catalog order.
SuffixPhrases(text, toks, phrases, p) ==
    LET Got(m) == IF m.found THEN [m EXCEPT !.phrase = p]
                  ELSE SuffixPhrases(text, toks, phrases, p + 1)
        Try(phrase_tokens) ==
            IF phrase_tokens = <<>> THEN SuffixPhrases(text, toks, phrases, p + 1)
            ELSE Got(SuffixScan(text, toks, phrase_tokens, Len(toks),
                                Len(phrase_tokens) - 1, -1, 0))
    IN  IF p > Len(phrases) THEN NoMatch
        ELSE Try(_tokens_from_phrase(phrases[p]))

\* find_suffix with the match it rests on; the returned span is [start, end),
\* text[start:].rstrip(_TRAILING_STRIP)
SuffixMatch(text, phrases) == SuffixPhrases(text, _tokenize_with_pos(text), phrases, 1)

find_suffix(text, phrases) ==
    LET Span(m) == IF m.found THEN Slice(text, m.start, m.end) ELSE <<>>
    IN  Span(SuffixMatch(text, phrases))

(***************************************************************************)
(* Heuristic classifier                                                    *)
(***************************************************************************)
\* any(phrase in lower for phrase in phrases)
AnyIn(lower, phrases) == \E phrase \in phrases : Contains(lower, phrase)

\* set(tokens)
TokenSet(tokens) == {tokens[k] : k \in 1..Len(tokens)}

IntroStrongPhrases ==
    { <<"h","e","r","e"," ","i","s"," ","t","h","e"," ","t","r","a","n","s","c","r","i","p","t","i","o","n">>,
      <<"h","e","r","e","'","s"," ","t","h","e"," ","t","r","a","n","s","c","r","i","p","t","i","o","n">>,
      <<"h","e","r","e"," ","i","s"," ","y","o","u","r"," ","t","r","a","n","s","c","r","i","p","t">>,
      <<"h","e","r","e","'","s"," ","y","o","u","r"," ","t","r","a","n","s","c","r","i","p","t">>,
      <<"t","h","i","s"," ","i","s"," ","t","h","e"," ","t","r","a","n","s","c","r","i","p","t","i","o","n">>,
      <<"t","h","i","s"," ","i","s"," ","y","o","u","r"," ","t","r","a","n","s","c","r","i","p","t">>,
      <<"l","e","t"," ","m","e"," ","t","r","a","n","s","c","r","i","b","e">>,
      <<"i"," ","w","i","l","l"," ","t","r","a","n","s","c","r","i","b","e">>,
      <<"i"," ","c","a","n"," ","p","r","o","v","i","d","e">>,
      <<"a","l","l","o","w"," ","m","e"," ","t","o"," ","t","r","a","n","s","c","r","i","b","e">>,
      <<"h","e","r","e"," ","i","s"," ","t","h","e"," ","t","e","x","t"," ","f","r","o","m">>,
      <<"h","e","r","e","'","s"," ","t","h","e"," ","t","e","x","t"," ","f","r","o","m">> }

IntroTranscriptionWords ==
    { <<"t","r","a","n","s","c","r","i","p","t","i","o","n">>,
      <<"t","r","a","n","s","c","r","i","b","e">>,
      <<"t","r","a","n","s","c","r","i","b","e","d">> }

IntroTextContext ==
    { <<"t","e","x","t"," ","f","r","o","m"," ","t","h","e"," ","i","m","a","g","e">>,
      <<"t","e","x","t"," ","f","r","o","m"," ","t","h","i","s"," ","i","m","a","g","e">>,
      <<"t","h","e"," ","t","e","x","t"," ","f","r","o","m"," ","t","h","e">>,
      <<"t","h","e"," ","t","e","x","t"," ","o","f"," ","t","h","e">> }

IntroSelfReference ==
    { <<"h","e","r","e"," ","i","s">>,
      <<"t","h","i","s"," ","i","s">>,
      <<"y","o","u","r"," ","t","r","a","n","s","c","r","i","p","t">>,
      <<"l","e","t"," ","m","e">>,
      <<"a","l","l","o","w"," ","m","e">>,
      <<"i"," ","w","i","l","l">>,
      <<"i","'","m"," ","g","o","i","n","g"," ","t","o">>,
      <<"p","r","o","v","i","d","i","n","g"," ","y","o","u"," ","w","i","t","h">>,
      <<"p","r","e","s","e","n","t","i","n","g">> }

IntroCannotRead ==
    { <<"t","h","e"," ","i","m","a","g","e"," ","i","s"," ","b","l","u","r","r","y">>,
      <<"i"," ","c","a","n","'","t"," ","r","e","a","d">>,
      <<"c","a","n","n","o","t"," ","r","e","a","d">>,
      <<"u","n","a","b","l","e"," ","t","o"," ","t","r","a","n","s","c","r","i","b","e">>,
      <<"c","a","n","'","t"," ","t","r","a","n","s","c","r","i","b","e">> }

_looks_like_intro(segment0) ==
    LET segment == Strip(segment0, Whitespace)
        lower == Lower(segment)
        tokens == TokenSet(_normalize_tokens(segment))
        has_transcription_word == AnyIn(lower, IntroTranscriptionWords)
        has_text_context == AnyIn(lower, IntroTextContext)
        has_colon == EndsWithChar(lower, ":")
    IN  IF segment = <<>> THEN FALSE
        ELSE IF Len(segment) > _MAX_HEURISTIC_CHARS THEN FALSE
        ELSE IF tokens = {} THEN FALSE
        ELSE IF AnyIn(lower, IntroStrongPhrases) THEN TRUE
        ELSE IF ~(has_transcription_word \/ has_text_context \/ has_colon) THEN FALSE
        ELSE IF tokens \cap INTRO_LEADS # {} \/ AnyIn(lower, IntroSelfReference) THEN TRUE
        ELSE IF AnyIn(lower, IntroCannotRead) THEN TRUE
        ELSE FALSE

OutroStrongPhrases ==
    { <<"l","e","t"," ","m","e"," ","k","n","o","w"," ","i","f"," ","y","o","u"," ","n","e","e","d">>,
      <<"a","n","y","t","h","i","n","g"," ","e","l","s","e"," ","i"," ","c","a","n">>,
      <<"a","n","y","t","h","i","n","g"," ","e","l","s","e"," ","y","o","u"," ","n","e","e","d">>,
      <<"w","o","u","l","d"," ","y","o","u"," ","l","i","k","e"," ","m","e"," ","t","o">>,
      <<"c","a","n"," ","i"," ","h","e","l","p"," ","w","i","t","h"," ","a","n","y","t","h","i","n","g"," ","e","l","s","e">>,
      <<"n","e","e","d"," ","m","e"," ","t","o"," ","t","r","a","n","s","c","r","i","b","e"," ","a","n","o","t","h","e","r">>,
      <<"f","e","e","l"," ","f","r","e","e"," ","t","o"," ","a","s","k">>,
      <<"h","a","p","p","y"," ","t","o"," ","h","e","l","p"," ","f","u","r","t","h","e","r">>,
      <<"h","e","r","e"," ","i","f"," ","y","o","u"," ","n","e","e","d"," ","m","o","r","e">> }

OutroOfferWords ==
    { <<"t","r","a","n","s","c","r","i","b","e">>,
      <<"n","e","e","d">>,
      <<"w","a","n","t"," ","m","e"," ","t","o">>,
      <<"y","o","u"," ","w","o","u","l","d"," ","l","i","k","e"," ","m","e"," ","t","o">>,
      <<"i"," ","c","a","n">> }

OutroQuestionWords ==
    { <<"a","n","y","t","h","i","n","g"," ","e","l","s","e">>,
      <<"n","e","e","d">> }

AnythingElse == <<"a","n","y","t","h","i","n","g"," ","e","l","s","e">>

_looks_like_outro(segment0) ==
    LET segment == Strip(segment0, Whitespace)
        lower == Lower(segment)
        tokens == TokenSet(_normalize_tokens(segment))
    IN  IF segment = <<>> THEN FALSE
        ELSE IF Len(segment) > _MAX_HEURISTIC_CHARS THEN FALSE
        ELSE IF tokens = {} THEN FALSE
        ELSE IF AnyIn(lower, OutroStrongPhrases) THEN TRUE
        ELSE IF Contains(lower, AnythingElse) /\ AnyIn(lower, OutroOfferWords) THEN TRUE
        ELSE IF tokens \cap OUTRO_POLITE # {} /\ tokens \cap OUTRO_KEYWORDS # {} THEN TRUE
        ELSE IF Contains(segment, <<"?">>) /\ AnyIn(lower, OutroQuestionWords) THEN TRUE
        ELSE FALSE

\* str.splitlines(True) with the offsets of _gather_lines_with_offsets: line k
\* is text[start:end], its line break included; offsets[k] is its start and
\* offsets[k + 1] its end.  A line ends at "\n" and at a "\r" that no "\n"
\* follows.
_gather_lines_with_offsets(text) ==
    LET n == Len(text)
        Break(i) == \/ text[i] = "\n"
                    \/ text[i] = "\r" /\ (i = n \/ text[i + 1] # "\n")
        starts == [i \in 1..n |-> i = 1 \/ Break(i - 1)]
        line == [i \in 1..n |->
                    LET e == Least(i, n, Break)
                    IN  [start |-> i - 1, end |-> IF e > n THEN n ELSE e]]
    IN  PickRange(line, starts, 1, n)

LineText(text, ln) == Slice(text, ln.start, ln.end)

\* not line.strip()
IsBlank(s) == Strip(s, Whitespace) = <<>>

\* the heuristic returning the first non-blank line alone
_detect_intro_heuristic_line(text) ==
    LET lines == _gather_lines_with_offsets(text)
        NonBlank(k) == ~IsBlank(LineText(text, lines[k]))
        idx == Least(1, Len(lines), NonBlank)
    IN  IF idx > Len(lines) THEN <<>>
        ELSE LET segment == Strip(LineText(text, lines[idx]),
                                  _LEADING_STRIP \cup _TRAILING_STRIP)
             IN  IF ~_looks_like_intro(segment) THEN <<>>
                 ELSE LineText(text, lines[idx])

_detect_intro_heuristic(text) ==
    LET lines == _gather_lines_with_offsets(text)
        NonBlank(k) == ~IsBlank(LineText(text, lines[k]))
        idx == Least(1, Len(lines), NonBlank)
    IN  IF idx > Len(lines) THEN <<>>
        ELSE LET segment == Strip(LineText(text, lines[idx]),
                                  _LEADING_STRIP \cup _TRAILING_STRIP)
                 k == Greatest(1, idx - 1, NonBlank)
                 start_offset == lines[k + 1].start
                 j == Least(idx + 1, Len(lines), NonBlank)
                 end_offset == lines[j - 1].end
             IN  IF ~_looks_like_intro(segment) THEN <<>>
                 ELSE Slice(text, start_offset, end_offset)

_detect_outro_heuristic(text) ==
    LET lines == _gather_lines_with_offsets(text)
        NonBlank(k) == ~IsBlank(LineText(text, lines[k]))
        idx == Greatest(1, Len(lines), NonBlank)
        inner_lines == {k \in 1..Len(lines) : NonBlank(k)}
    IN  IF idx < 1 THEN <<>>
        ELSE LET segment == Strip(LineText(text, lines[idx]),
                                  _LEADING_STRIP \cup _TRAILING_STRIP)
                 k == Greatest(1, idx - 1, NonBlank)
                 start_offset == lines[k + 1].start
                 m == Least(idx + 1, Len(lines), NonBlank)
                 end_offset == lines[m - 1].end
             IN  IF Cardinality(inner_lines) <= 1 THEN <<>>
                 ELSE IF ~_looks_like_outro(segment) THEN <<>>
                 ELSE Slice(text, start_offset, end_offset)

(***************************************************************************)
(* Markdown clean-up                                                       *)
(***************************************************************************)
\* the offset of the first character c at or after offset i, len(text) if none
FindChar(text, c, i) ==
    LET Is(k) == text[k + 1] = c
    IN  Least(i, Len(text) - 1, Is)

\* The end of the match of \[X\]\([^)]+\) whose "[" is at offset i, where X is
\* [^\]]* (min_inner = 0) or [^\]]+ (min_inner = 1); -1 when there is none.
\* A negated class cannot pass its own closing character, so the closing "]"
\* and ")" are the first ones.
BracketParenEnd(text, i, min_inner) ==
    LET n == Len(text)
        Paren(q, r) ==
            IF i < n /\ text[i + 1] = "[" /\ q < n /\ q - (i + 1) >= min_inner
               /\ q + 1 < n /\ text[q + 2] = "(" /\ r < n /\ r - (q + 2) >= 1
            THEN r + 1
            ELSE -1
        Bracket(q) == Paren(q, FindChar(text, ")", q + 2))
    IN  Bracket(FindChar(text, "]", i + 1))

\* _MD_IMAGE_RE matched at offset i: the end of the match, -1 when there is none
ImageEnd(text, i) ==
    IF i < Len(text) /\ text[i + 1] = "!" THEN BracketParenEnd(text, i + 1, 0) ELSE -1

\* _MD_LINK_RE matched at offset i
LinkEnd(text, i) == BracketParenEnd(text, i, 1)

RECURSIVE SubImages(_, _)
\* _MD_IMAGE_RE.sub("", text) from offset pos on: leftmost matches, not overlapping
SubImages(text, pos) ==
    LET n == Len(text)
        At(i) == ImageEnd(text, i) # -1
        From(i) == IF i > n - 1 THEN Slice(text, pos, n)
                   ELSE Slice(text, pos, i) \o SubImages(text, ImageEnd(text, i))
    IN  From(Least(pos, n - 1, At))

RECURSIVE SubLinks(_, _)
\* _MD_LINK_RE.sub(r"\1", text) from offset pos on
SubLinks(text, pos) ==
    LET n == Len(text)
        At(i) == LinkEnd(text, i) # -1
        From(i) == IF i > n - 1 THEN Slice(text, pos, n)
                   ELSE Slice(text, pos, i)
                        \o Slice(text, i + 1, FindChar(text, "]", i + 1))
                        \o SubLinks(text, LinkEnd(text, i))
    IN  From(Least(pos, n - 1, At))

\* ^\s{0,3}#{1,6}\s+ (MULTILINE) matched at offset i: the end of the match, -1
\* when there is none.  "^" holds at offset 0 and after a "\n".  The greedy
\* \s{0,3} and #{1,6} can only give back characters of their own class, so the
\* whitespace run has at most 3 characters, the run of "#" has 1 to 6, and
\* whitespace follows it.
HeadingEnd(text, i) ==
    LET End(a, h, b) ==
            IF (i = 0 \/ text[i] = "\n") /\ a - i <= 3 /\ h - a >= 1 /\ h - a <= 6
               /\ b - h >= 1
            THEN b
            ELSE -1
        Hashes(a, h) == End(a, h, SkipFwd(text, Whitespace, h))
        Indent(a) == Hashes(a, SkipFwd(text, {"#"}, a))
    IN  Indent(SkipFwd(text, Whitespace, i))

RECURSIVE SubHeadings(_, _)
\* re.sub(r"^\s{0,3}#{1,6}\s+", "", text, flags=re.MULTILINE) from offset pos on
SubHeadings(text, pos) ==
    LET n == Len(text)
        At(i) == HeadingEnd(text, i) # -1
        From(i) == IF i > n - 1 THEN Slice(text, pos, n)
                   ELSE Slice(text, pos, i) \o SubHeadings(text, HeadingEnd(text, i))
    IN  From(Least(pos, n - 1, At))

\* text.replace(c + c, ""): of each maximal run of c the leftmost pairs go, so
\* only the last character of a run of odd length stays
ReplacePair(text, c) ==
    LET n == Len(text)
        keep == [i \in 1..n |->
                    \/ text[i] # c
                    \/ /\ (i = n \/ text[i + 1] # c)
                       /\ (i - SkipBack(text, {c}, i)) % 2 = 1]
    IN  PickRange(text, keep, 1, n)

\* text.replace(c, " "): the character blanked instead of deleted
ReplaceCharBySpace(text, c) == [i \in 1..Len(text) |-> IF text[i] = c THEN " " ELSE text[i]]

\* text.replace(c, "")
ReplaceChar(text, c) ==
    LET Keep(x) == x # c
    IN  SelectSeq(text, Keep)

\* re.sub(r"\n{3,}", "\n\n", text): of each run of newlines the first two stay
CollapseNewlines(text) ==
    LET n == Len(text)
        keep == [i \in 1..n |->
                    ~(text[i] = "\n" /\ i >= 3 /\ text[i - 1] = "\n" /\ text[i - 2] = "\n")]
    IN  PickRange(text, keep, 1, n)

_strip_markdown_artifacts(text) ==
    IF text = <<>> THEN <<>>
    ELSE LET c1 == SubImages(text, 0)
             c2 == SubLinks(c1, 0)
             c3 == SubHeadings(c2, 0)
             c4 == ReplacePair(c3, "*")
             c5 == ReplacePair(c4, "_")
             c6 == ReplaceChar(c5, "*")
             c7 == ReplaceChar(c6, "_")
             c8 == ReplaceChar(c7, "BTICK")
             c9 == CollapseNewlines(c8)
         IN  Strip(c9, Whitespace)

(***************************************************************************)
(* strip_ai_wrapping                                                       *)
(***************************************************************************)
\* found or fallback: lines 379-381 and 389-391, a phrase match first and the
\* heuristic when there is none
FoundOr(found, fallback) == IF found = <<>> THEN fallback ELSE found

IntroOf(text) ==
    FoundOr(find_prefix(text, INTRO_TRIGGERS), _detect_intro_heuristic(text))

OutroOf(cleaned) ==
    FoundOr(find_suffix(cleaned, OUTRO_TRIGGERS), _detect_outro_heuristic(cleaned))

\* lines 392-397: the outro taken off cleaned1, which is text[from:]
UnwrapBody(cleaned1, from, intro_text, outro0) ==
    LET has_outro == Strip(outro0, Whitespace) # <<>>
        cleaned2 == IF has_outro
                    THEN RStrip(Slice(cleaned1, 0, Len(cleaned1) - Len(outro0)),
                                _TRAILING_STRIP)
                    ELSE cleaned1
    IN  [body |-> cleaned2, from |-> from, to |-> from + Len(cleaned2),
         intro_text |-> intro_text,
         outro_text |-> IF has_outro THEN outro0 ELSE <<>>]

\* lines 389-391
UnwrapTo(cleaned1, from, intro_text) ==
    UnwrapBody(cleaned1, from, intro_text, OutroOf(cleaned1))

\* lines 382-387: the intro taken off text
UnwrapFrom(text, intro0) ==
    LET has_intro == Strip(intro0, Whitespace) # <<>>
        from == IF has_intro THEN SkipFwd(text, _LEADING_STRIP, Len(intro0)) ELSE 0
    IN  UnwrapTo(Slice(text, from, Len(text)), from,
                 IF has_intro THEN intro0 ELSE <<>>)

\* strip_ai_wrapping up to the markdown clean-up: the intro and outro taken
\* off the text, with the span [from, to) of the text that is left
Unwrap(text) == UnwrapFrom(text, IntroOf(text))

\* line 399-401: the markdown clean-up of the body and the tuple returned
Wrapped(u) ==
    [cleaned |-> _strip_markdown_artifacts(u.body),
     intro_text |-> u.intro_text, outro_text |-> u.outro_text]

strip_ai_wrapping(text) == Wrapped(Unwrap(text))

(***************************************************************************)
(* Scoring.  A float is modelled by the exact fraction [num, den] it         *)
(* approximates; round(x, k) gives an integer count of 10^-k units.        *)
(***************************************************************************)
Frac(n, d) == [num |-> n, den |-> d]

\* a <= b for fractions with positive denominators
FracLeq(a, b) == a.num * b.den <= b.num * a.den

FracMax(a, b) == IF FracLeq(a, b) THEN b ELSE a

FracMin(a, b) == IF FracLeq(a, b) THEN a ELSE b

FracAdd(a, b) == Frac(a.num * b.den + b.num * a.den, a.den * b.den)

FracSub(a, b) == Frac(a.num * b.den - b.num * a.den, a.den * b.den)

\* round(x * 10^k) for x = n / d >= 0, scale = 10^k: to the nearest integer,
\* a tie to the even one
RoundScaled(x, scale) ==
    LET n == x.num * scale
        q == n \div x.den
        r == n % x.den
    IN  IF 2 * r < x.den THEN q
        ELSE IF 2 * r > x.den THEN q + 1
        ELSE IF q % 2 = 0 THEN q ELSE q + 1

PlaceholderTokens ==
    { <<"[","u","n","s","u","r","e","]">>,
      <<"[","b","l","a","n","k","]">> }

\* _PLACEHOLDER_TOKEN_RE matched at offset i: the end of the match, -1 if none
PlaceholderEnd(text, i) ==
    LET Fits(ph) == /\ i + Len(ph) <= Len(text)
                    /\ Lower(Slice(text, i, i + Len(ph))) = ph
    IN  IF \E ph \in PlaceholderTokens : Fits(ph)
        THEN i + Len(CHOOSE ph \in PlaceholderTokens : Fits(ph))
        ELSE -1

\* _PLACEHOLDER_TOKEN_RE.sub(r" \1 ", text): a space before and after every
\* placeholder (two matches cannot overlap: each begins with its only "[")
PadPlaceholders(text) ==
    LET n == Len(text)
        Starts(i) == PlaceholderEnd(text, i - 1) # -1
        Ends(i) == \E ph \in PlaceholderTokens :
                      i - Len(ph) >= 0 /\ PlaceholderEnd(text, i - Len(ph)) = i
        piece == [i \in 1..n |->
                    IF Starts(i) THEN <<" ", text[i]>>
                    ELSE IF Ends(i) THEN <<text[i], " ">>
                    ELSE <<text[i]>>]
    IN  Flatten(piece, 1, n)

\* the words of the text as runs of word characters
SplitWords(text) == FindAllWords(text)

\* str.split(): the maximal runs of characters that are not whitespace
Split(text) ==
    LET n == Len(text)
        NonWs == {c \in {text[i] : i \in 1..n} : c \notin Whitespace}
        starts == [i \in 1..n |-> text[i] \notin Whitespace
                                    /\ (i = 1 \/ text[i - 1] \in Whitespace)]
        word == [i \in 1..n |-> Slice(text, i - 1, SkipFwd(text, NonWs, i - 1))]
    IN  PickRange(word, starts, 1, n)

\* returns (ratio, count, total)
compute_placeholder_stats(text) ==
    LET Stats(count, total) ==
            IF total = 0 THEN [ratio |-> Frac(0, 1), count |-> 0, total |-> 0]
            ELSE [ratio |-> Frac(count, total), count |-> count, total |-> total]
        Count(words) ==
            Stats(Cardinality({k \in 1..Len(words) :
                                   Lower(words[k]) \in PlaceholderTokens}),
                  Len(words))
    IN  Count(Split(PadPlaceholders(text)))

\* the n-gram window of compute_repetition_ratio
NgramWindow == 8

\* the two signals added, not the larger of them taken
compute_repetition_ratio_summed(text) ==
    LET \* the non-blank lines, stripped and lower-cased
        Lines(all_lines) ==
            PickRange([k \in 1..Len(all_lines) |->
                          Lower(Strip(LineText(text, all_lines[k]), Whitespace))],
                      [k \in 1..Len(all_lines) |->
                          ~IsBlank(LineText(text, all_lines[k]))],
                      1, Len(all_lines))
        \* sum(count for count in line_counts.values() if count > 1): the
        \* lines whose value occurs on another line as well
        LineRatio(lines) ==
            IF Len(lines) > 0
            THEN Frac(Cardinality({i \in 1..Len(lines) :
                          \E j \in 1..Len(lines) : j # i /\ lines[j] = lines[i]}),
                      Len(lines))
            ELSE Frac(0, 1)
        \* sum(count - 1 for count in ngrams.values() if count > 1): the
        \* windows that repeat an earlier window
        NgramRatio(words) ==
            LET total_windows == Len(words) - NgramWindow + 1
                Ngram(i) == SubSeq(words, i, i + NgramWindow - 1)
            IN  IF Len(words) >= NgramWindow * 2
                THEN Frac(Cardinality({i \in 1..total_windows :
                              \E j \in 1..(i - 1) : Ngram(j) = Ngram(i)}),
                          IF total_windows > 1 THEN total_windows ELSE 1)
                ELSE Frac(0, 1)
    IN  IF text = <<>> THEN Frac(0, 1)
        ELSE FracMax(Frac(0, 1),
                     FracMin(Frac(1, 1),
                             FracAdd(LineRatio(Lines(_gather_lines_with_offsets(text))),
                                     NgramRatio(FindAllWords(Lower(text))))))

compute_repetition_ratio(text) ==
    LET \* the non-blank lines, stripped and lower-cased
        Lines(all_lines) ==
            PickRange([k \in 1..Len(all_lines) |->
                          Lower(Strip(LineText(text, all_lines[k]), Whitespace))],
                      [k \in 1..Len(all_lines) |->
                          ~IsBlank(LineText(text, all_lines[k]))],
                      1, Len(all_lines))
        \* sum(count for count in line_counts.values() if count > 1): the
        \* lines whose value occurs on another line as well
        LineRatio(lines) ==
            IF Len(lines) > 0
            THEN Frac(Cardinality({i \in 1..Len(lines) :
                          \E j \in 1..Len(lines) : j # i /\ lines[j] = lines[i]}),
                      Len(lines))
            ELSE Frac(0, 1)
        \* sum(count - 1 for count in ngrams.values() if count > 1): the
        \* windows that repeat an earlier window
        NgramRatio(words) ==
            LET total_windows == Len(words) - NgramWindow + 1
                Ngram(i) == SubSeq(words, i, i + NgramWindow - 1)
            IN  IF Len(words) >= NgramWindow * 2
                THEN Frac(Cardinality({i \in 1..total_windows :
                              \E j \in 1..(i - 1) : Ngram(j) = Ngram(i)}),
                          IF total_windows > 1 THEN total_windows ELSE 1)
                ELSE Frac(0, 1)
    IN  IF text = <<>> THEN Frac(0, 1)
        ELSE FracMax(Frac(0, 1),
                     FracMin(Frac(1, 1),
                             FracMax(LineRatio(Lines(_gather_lines_with_offsets(text))),
                                     NgramRatio(FindAllWords(Lower(text))))))

\* (1.0 - (placeholder_ratio + repetition_ratio)) * 100: the sum not clamped
ConfidenceUnclamped(placeholder_ratio, repetition_ratio) ==
    LET rest == FracSub(Frac(1, 1), FracAdd(placeholder_ratio, repetition_ratio))
    IN  Frac(rest.num * 100, rest.den)

\* (1.0 - min(1.0, placeholder_ratio)) * 100: the repetition left out
ConfidencePlaceholdersOnly(placeholder_ratio, repetition_ratio) ==
    LET bad_ratio == FracMin(Frac(1, 1), placeholder_ratio)
        rest == FracSub(Frac(1, 1), bad_ratio)
    IN  Frac(rest.num * 100, rest.den)

\* (1.0 - min(1.0, placeholder_ratio + repetition_ratio)) * 100
Confidence(placeholder_ratio, repetition_ratio) ==
    LET bad_ratio == FracMin(Frac(1, 1), FracAdd(placeholder_ratio, repetition_ratio))
        rest == FracSub(Frac(1, 1), bad_ratio)
    IN  Frac(rest.num * 100, rest.den)

compute_confidence(text) ==
    Confidence(compute_placeholder_stats(text).ratio, compute_repetition_ratio(text))

(***************************************************************************)
(* Folder scanner: the state of one folder and of scan_folder running on it *)
(***************************************************************************)
VARIABLES
    files,            \* the names of the files in the folder
    disk,             \* disk[name]: the content of the file
    opts,             \* threshold, log_path, apply_remediation of scan_folder
    pc,               \* "idle", "scan" (in the for loop), "done" (result emitted)
    pass,             \* the number of scan_folder calls begun
    queue,            \* the files the for loop has still to visit, in order
    all_scores,
    over_scores,
    removed_entries,
    log,              \* the lines of the log file
    output,           \* the Scan Result written to stdout
    faults,           \* the number of I/O errors so far
    hist,             \* one record for every file the loop has visited
    reports,          \* FileReport of the texts a file can hold, tabulated
    text,             \* the text under test (text operations only)
    tpc,              \* "start", "anchored", "stripped", "scored"
    anchors,          \* find_prefix / find_suffix on text
    stripped,         \* strip_ai_wrapping on text
    stats,            \* the scores of the cleaned text
    procs             \* two scan_folder calls running at once: where each is

scan_vars == <<files, disk, opts, pc, pass, queue, all_scores, over_scores,
               removed_entries, log, output, faults, hist, reports>>

text_vars == <<text, tpc, anchors, stripped, stats>>

race_vars == <<procs>>

vars == <<scan_vars, text_vars, race_vars>>

\* the number of scan_folder calls on the folder
MaxPasses == 2

\* the number of .txt files in the folder
MaxFiles == 2

\* the number of I/O errors (a read, a write or a log append that fails)
MaxFaults == 1

TxtNames ==
    { <<"B",".","t","x","t">>,
      <<"a",".","t","x","t">>,
      <<"b",".","t","x","t">> }

\* a file of the folder that glob('*.txt') does not match
OtherName == <<"c",".","m","d">>

TxtSuffix == <<".","t","x","t">>

ContentPool ==
    { <<"H","e","r","e"," ","i","s"," ","t","h","e"," ","t","r","a","n","s","c","r","i","p","t","i","o","n",":"," ","H","e","r","e"," ","i","s"," ","t","h","e"," ","t","r","a","n","s","c","r","i","p","t","i","o","n",":"," ","H","i">>,
      <<"[","b","l","a","n","k","]"," ","[","b","l","a","n","k","]"," ","x","\n">>,
      <<"[","b","l","a","n","k","]","\n","[","b","l","a","n","k","]","\n">>,
      <<"H","e","r","e"," ","i","s"," ","t","h","e"," ","t","r","a","n","s","c","r","i","p","t","i","o","n",":","\n">> }

\* the threshold tried, in hundredths (--threshold 33.33)
ThresholdPool == {3333}

\* ord(c) for the characters of file names
CodePoint(c) ==
    IF c \in UpperSet THEN 64 + (CHOOSE i \in 1..26 : UpperLetters[i] = c)
    ELSE IF c \in {LowerLetters[i] : i \in 1..26}
         THEN 96 + (CHOOSE i \in 1..26 : LowerLetters[i] = c)
    ELSE IF c = "." THEN 46
    ELSE IF c = "_" THEN 95
    ELSE 48 + (CHOOSE d \in 0..9 : <<"0","1","2","3","4","5","6","7","8","9">>[d + 1] = c)

\* a < b for str: by code point at the first difference, a proper prefix first
StrLess(a, b) ==
    LET Differ(i) == i > Len(a) \/ i > Len(b) \/ a[i] # b[i]
        i == Least(1, (IF Len(a) < Len(b) THEN Len(a) ELSE Len(b)) + 1, Differ)
    IN  IF i > Len(a) THEN i <= Len(b)
        ELSE IF i > Len(b) THEN FALSE
        ELSE CodePoint(a[i]) < CodePoint(b[i])

\* folder.glob('*.txt') on a POSIX file system: the names ending in ".txt"
Glob(names) ==
    {f \in names : Len(f) >= Len(TxtSuffix)
                   /\ Slice(f, Len(f) - Len(TxtSuffix), Len(f)) = TxtSuffix}

\* sorted(paths) for PosixPath: ascending by the name as a str
SortedPaths(paths) ==
    [k \in 1..Cardinality(paths) |->
        CHOOSE x \in paths : Cardinality({y \in paths : StrLess(y, x)}) = k - 1]

\* the strings a failed write can leave behind: a shorter beginning of data
\* (write_text opens with mode "w", which empties the file, and then writes)
TornWrites(data) == {Slice(data, 0, 0), Slice(data, 0, Len(data) \div 2)}

\* the cleaned text handed to write_text as it is
NormalizedUnterminated(cleaned_text) == cleaned_text

\* lines 454-456: the text handed to write_text
Normalized(cleaned_text) ==
    IF cleaned_text # <<>> /\ ~EndsWithChar(cleaned_text, "\n")
                           /\ ~EndsWithChar(cleaned_text, "\r")
    THEN cleaned_text \o <<"\n">>
    ELSE cleaned_text

\* the entry with the removed texts as strip_ai_wrapping returned them, not
\* stripped of the whitespace around them
ScoredUnstripped(name, r, ps, repetition_ratio) ==
    LET confidence == Confidence(ps.ratio, repetition_ratio)
        repetition_flag == FracLeq(Frac(2, 10), repetition_ratio)
        entry == [file |-> name,
                  confidence |-> RoundScaled(confidence, 100),
                  placeholder_ratio |-> RoundScaled(ps.ratio, 10000),
                  placeholder_count |-> ps.count,
                  token_count |-> ps.total,
                  repetition_ratio |-> RoundScaled(repetition_ratio, 10000),
                  remove_intro_text |-> r.intro_text,
                  remove_outro_text |-> r.outro_text,
                  repetition_detected |-> repetition_flag]
    IN  [cleaned_text |-> r.cleaned, intro_text |-> r.intro_text,
         outro_text |-> r.outro_text, confidence |-> confidence,
         repetition_flag |-> repetition_flag, entry |-> entry]

\* lines 462-476 and 502-506: the entry and what the loop keeps of a file
Scored(name, r, ps, repetition_ratio) ==
    LET confidence == Confidence(ps.ratio, repetition_ratio)
        repetition_flag == FracLeq(Frac(2, 10), repetition_ratio)
        entry == [file |-> name,
                  confidence |-> RoundScaled(confidence, 100),
                  placeholder_ratio |-> RoundScaled(ps.ratio, 10000),
                  placeholder_count |-> ps.count,
                  token_count |-> ps.total,
                  repetition_ratio |-> RoundScaled(repetition_ratio, 10000),
                  remove_intro_text |-> Strip(r.intro_text, {"BOM", " ", "\t", "\r", "\n"}),
                  remove_outro_text |-> Strip(r.outro_text, {"BOM", " ", "\t", "\r", "\n"}),
                  repetition_detected |-> repetition_flag]
    IN  [cleaned_text |-> r.cleaned, intro_text |-> r.intro_text,
         outro_text |-> r.outro_text, confidence |-> confidence,
         repetition_flag |-> repetition_flag, entry |-> entry]

\* lines 460-461: the scores of the cleaned text
Measured(name, r) ==
    Scored(name, r, compute_placeholder_stats(r.cleaned),
           compute_repetition_ratio(r.cleaned))

\* lines 451-506 for one file: the entry and what the loop keeps of it
FileReport(name, file_text) == Measured(name, strip_ai_wrapping(file_text))

RECURSIVE FileTexts(_)
\* the texts a file can hold after k calls of scan_folder: what it held before,
\* what write_text was handed, and what a failed write_text left
FileTexts(k) ==
    IF k = 0 THEN ContentPool
    ELSE LET before == FileTexts(k - 1)
             written == {Normalized(strip_ai_wrapping(t).cleaned) : t \in before}
         IN  before \cup written \cup UNION {TornWrites(w) : w \in written}

\* FileReport on the texts a file can hold, for the variable reports
Reports ==
    {[text |-> t, report |-> FileReport(<<>>, t)] : t \in FileTexts(MaxPasses)}

\* FileReport(name, file_text), looked up in reports
ReportOf(name, file_text) ==
    IF \E p \in reports : p.text = file_text
    THEN LET p == CHOOSE q \in reports : q.text = file_text
         IN  [p.report EXCEPT !.entry.file = name]
    ELSE FileReport(name, file_text)

NoOutput == [emitted |-> FALSE, all |-> <<>>, has_over |-> FALSE, over |-> <<>>]

Folders ==
    {fs \cup {OtherName} : fs \in {s \in SUBSET TxtNames : Cardinality(s) <= MaxFiles}}

Init ==
    /\ reports = Reports
    /\ files \in Folders
    /\ disk \in [files -> ContentPool]
    /\ disk[OtherName] = CHOOSE c \in ContentPool : TRUE
    /\ opts \in [has_threshold : BOOLEAN, threshold : ThresholdPool,
                 log_path : BOOLEAN, apply_remediation : BOOLEAN]
    /\ pc = "idle"
    /\ procs = <<>>
    /\ pass = 0
    /\ queue = <<>>
    /\ all_scores = <<>>
    /\ over_scores = <<>>
    /\ removed_entries = <<>>
    /\ log = <<>>
    /\ output = NoOutput
    /\ faults = 0
    /\ hist = <<>>
    /\ text = <<>>
    /\ tpc = "idle"
    /\ anchors = <<>>
    /\ stripped = <<>>
    /\ stats = <<>>

\* scan_folder is called and the for loop goes through the sorted glob twice
BeginRepeating ==
    /\ pc \in {"idle", "done"}
    /\ pass < MaxPasses
    /\ pass' = pass + 1
    /\ pc' = "scan"
    /\ queue' = SortedPaths(Glob(files)) \o SortedPaths(Glob(files))
    /\ all_scores' = <<>>
    /\ over_scores' = <<>>
    /\ removed_entries' = <<>>
    /\ output' = NoOutput
    /\ UNCHANGED <<files, disk, opts, log, faults, hist, reports, text_vars, race_vars>>

\* scan_folder is called: lines 441-445, the lists and the sorted glob
Begin ==
    /\ pc \in {"idle", "done"}
    /\ pass < MaxPasses
    /\ pass' = pass + 1
    /\ pc' = "scan"
    /\ queue' = SortedPaths(Glob(files))
    /\ all_scores' = <<>>
    /\ over_scores' = <<>>
    /\ removed_entries' = <<>>
    /\ output' = NoOutput
    /\ UNCHANGED <<files, disk, opts, log, faults, hist, reports, text_vars, race_vars>>

\* read_text raises and the exception ends the for loop
SkipFileAborting ==
    /\ pc = "scan"
    /\ queue # <<>>
    /\ faults < MaxFaults
    /\ faults' = faults + 1
    /\ queue' = <<>>
    /\ hist' = Append(hist, [pass |-> pass, file |-> Head(queue), read |-> FALSE,
                             text |-> disk[Head(queue)], cleaned_text |-> <<>>,
                             intro_text |-> <<>>, outro_text |-> <<>>,
                             write |-> "none", data |-> <<>>])
    /\ UNCHANGED <<files, disk, opts, pc, pass, all_scores, over_scores,
                   removed_entries, log, output, reports, text_vars, race_vars>>

\* lines 446-449: read_text raises and the loop goes on to the next file
SkipFile ==
    /\ pc = "scan"
    /\ queue # <<>>
    /\ faults < MaxFaults
    /\ faults' = faults + 1
    /\ queue' = Tail(queue)
    /\ hist' = Append(hist, [pass |-> pass, file |-> Head(queue), read |-> FALSE,
                             text |-> disk[Head(queue)], cleaned_text |-> <<>>,
                             intro_text |-> <<>>, outro_text |-> <<>>,
                             write |-> "none", data |-> <<>>])
    /\ UNCHANGED <<files, disk, opts, pc, pass, all_scores, over_scores,
                   removed_entries, log, output, reports, text_vars, race_vars>>

\* one turn of the for loop where an exception of write_text ends the loop
ScanFileAborting ==
    /\ pc = "scan"
    /\ queue # <<>>
    /\ \E rep \in {ReportOf(Head(queue), disk[Head(queue)])} :
       LET file_path == Head(queue)
           file_text == disk[file_path]
           rewrite == opts.apply_remediation /\ rep.cleaned_text # file_text
           normalized == Normalized(rep.cleaned_text)
           Step(write, after) ==
               /\ disk' = [disk EXCEPT ![file_path] = after]
               /\ faults' = IF write \in {"error", "torn"} THEN faults + 1 ELSE faults
               /\ queue' = IF write \in {"error", "torn"} THEN <<>> ELSE Tail(queue)
               /\ hist' = Append(hist, [pass |-> pass, file |-> file_path, read |-> TRUE,
                                        text |-> file_text,
                                        cleaned_text |-> rep.cleaned_text,
                                        intro_text |-> rep.intro_text,
                                        outro_text |-> rep.outro_text,
                                        write |-> write, data |-> normalized])
       IN  /\ \/ ~rewrite /\ Step("none", file_text)
              \/ rewrite /\ Step("ok", normalized)
              \/ rewrite /\ faults < MaxFaults /\ Step("error", file_text)
              \/ rewrite /\ faults < MaxFaults
                         /\ \E torn \in TornWrites(normalized) : Step("torn", torn)
           /\ removed_entries' =
                 IF opts.apply_remediation
                    /\ (rep.intro_text # <<>> \/ rep.outro_text # <<>> \/ rep.repetition_flag)
                 THEN Append(removed_entries,
                             [file_path |-> file_path, intro_text |-> rep.intro_text,
                              outro_text |-> rep.outro_text,
                              repetition_flag |-> rep.repetition_flag])
                 ELSE removed_entries
           /\ all_scores' = Append(all_scores, rep.entry)
           /\ over_scores' =
                 IF opts.has_threshold /\ FracLeq(rep.confidence, Frac(opts.threshold, 100))
                 THEN Append(over_scores, rep.entry)
                 ELSE over_scores
    /\ UNCHANGED <<files, opts, pc, pass, log, output, reports, text_vars, race_vars>>

\* one turn of the for loop where a file that is rewritten gets no entry
ScanFileHidingRewritten ==
    /\ pc = "scan"
    /\ queue # <<>>
    /\ \E rep \in {ReportOf(Head(queue), disk[Head(queue)])} :
       LET file_path == Head(queue)
           file_text == disk[file_path]
           rewrite == opts.apply_remediation /\ rep.cleaned_text # file_text
           normalized == Normalized(rep.cleaned_text)
           Step(write, after) ==
               /\ disk' = [disk EXCEPT ![file_path] = after]
               /\ faults' = IF write \in {"error", "torn"} THEN faults + 1 ELSE faults
               /\ hist' = Append(hist, [pass |-> pass, file |-> file_path, read |-> TRUE,
                                        text |-> file_text,
                                        cleaned_text |-> rep.cleaned_text,
                                        intro_text |-> rep.intro_text,
                                        outro_text |-> rep.outro_text,
                                        write |-> write, data |-> normalized])
       IN  /\ \/ ~rewrite /\ Step("none", file_text)
              \/ rewrite /\ Step("ok", normalized)
              \/ rewrite /\ faults < MaxFaults /\ Step("error", file_text)
              \/ rewrite /\ faults < MaxFaults
                         /\ \E torn \in TornWrites(normalized) : Step("torn", torn)
           /\ removed_entries' =
                 IF opts.apply_remediation
                    /\ (rep.intro_text # <<>> \/ rep.outro_text # <<>> \/ rep.repetition_flag)
                 THEN Append(removed_entries,
                             [file_path |-> file_path, intro_text |-> rep.intro_text,
                              outro_text |-> rep.outro_text,
                              repetition_flag |-> rep.repetition_flag])
                 ELSE removed_entries
           /\ all_scores' = IF rewrite THEN all_scores ELSE Append(all_scores, rep.entry)
           /\ over_scores' =
                 IF opts.has_threshold /\ FracLeq(rep.confidence, Frac(opts.threshold, 100))
                 THEN Append(over_scores, rep.entry)
                 ELSE over_scores
    /\ queue' = Tail(queue)
    /\ UNCHANGED <<files, opts, pc, pass, log, output, reports, text_vars, race_vars>>

\* one turn of the for loop that appends a line to the log for its file
ScanFileLogging ==
    /\ pc = "scan"
    /\ queue # <<>>
    /\ \E rep \in {ReportOf(Head(queue), disk[Head(queue)])} :
       LET file_path == Head(queue)
           file_text == disk[file_path]
           rewrite == opts.apply_remediation /\ rep.cleaned_text # file_text
           normalized == Normalized(rep.cleaned_text)
           Step(write, after) ==
               /\ disk' = [disk EXCEPT ![file_path] = after]
               /\ faults' = IF write \in {"error", "torn"} THEN faults + 1 ELSE faults
               /\ hist' = Append(hist, [pass |-> pass, file |-> file_path, read |-> TRUE,
                                        text |-> file_text,
                                        cleaned_text |-> rep.cleaned_text,
                                        intro_text |-> rep.intro_text,
                                        outro_text |-> rep.outro_text,
                                        write |-> write, data |-> normalized])
       IN  /\ \/ ~rewrite /\ Step("none", file_text)
              \/ rewrite /\ Step("ok", normalized)
              \/ rewrite /\ faults < MaxFaults /\ Step("error", file_text)
              \/ rewrite /\ faults < MaxFaults
                         /\ \E torn \in TornWrites(normalized) : Step("torn", torn)
           /\ removed_entries' =
                 IF opts.apply_remediation
                    /\ (rep.intro_text # <<>> \/ rep.outro_text # <<>> \/ rep.repetition_flag)
                 THEN Append(removed_entries,
                             [file_path |-> file_path, intro_text |-> rep.intro_text,
                              outro_text |-> rep.outro_text,
                              repetition_flag |-> rep.repetition_flag])
                 ELSE removed_entries
           /\ all_scores' = Append(all_scores, rep.entry)
           /\ over_scores' =
                 IF opts.has_threshold /\ FracLeq(rep.confidence, Frac(opts.threshold, 100))
                 THEN Append(over_scores, rep.entry)
                 ELSE over_scores
    /\ queue' = Tail(queue)
    /\ log' = IF opts.log_path /\ opts.apply_remediation
              THEN log \o <<[kind |-> "file", file |-> Head(queue)]>>
              ELSE log
    /\ UNCHANGED <<files, opts, pc, pass, output, reports, text_vars, race_vars>>

\* lines 446-506: one turn of the for loop on a file that is read.  write is
\* what becomes of write_text: "none" (not called), "ok", "error" (it raises
\* before the file is opened) or "torn" (it raises after the file was emptied).
ScanFile ==
    /\ pc = "scan"
    /\ queue # <<>>
    /\ \E rep \in {ReportOf(Head(queue), disk[Head(queue)])} :
       LET file_path == Head(queue)
           file_text == disk[file_path]
           rewrite == opts.apply_remediation /\ rep.cleaned_text # file_text
           normalized == Normalized(rep.cleaned_text)
           Step(write, after) ==
               /\ disk' = [disk EXCEPT ![file_path] = after]
               /\ faults' = IF write \in {"error", "torn"} THEN faults + 1 ELSE faults
               /\ hist' = Append(hist, [pass |-> pass, file |-> file_path, read |-> TRUE,
                                        text |-> file_text,
                                        cleaned_text |-> rep.cleaned_text,
                                        intro_text |-> rep.intro_text,
                                        outro_text |-> rep.outro_text,
                                        write |-> write, data |-> normalized])
       IN  /\ \/ ~rewrite /\ Step("none", file_text)
              \/ rewrite /\ Step("ok", normalized)
              \/ rewrite /\ faults < MaxFaults /\ Step("error", file_text)
              \/ rewrite /\ faults < MaxFaults
                         /\ \E torn \in TornWrites(normalized) : Step("torn", torn)
           /\ removed_entries' =
                 IF opts.apply_remediation
                    /\ (rep.intro_text # <<>> \/ rep.outro_text # <<>> \/ rep.repetition_flag)
                 THEN Append(removed_entries,
                             [file_path |-> file_path, intro_text |-> rep.intro_text,
                              outro_text |-> rep.outro_text,
                              repetition_flag |-> rep.repetition_flag])
                 ELSE removed_entries
           /\ all_scores' = Append(all_scores, rep.entry)
           /\ over_scores' =
                 IF opts.has_threshold /\ FracLeq(rep.confidence, Frac(opts.threshold, 100))
                 THEN Append(over_scores, rep.entry)
                 ELSE over_scores
    /\ queue' = Tail(queue)
    /\ UNCHANGED <<files, opts, pc, pass, log, output, reports, text_vars, race_vars>>

\* the lines that lines 511-519 write for one removed entry
LogLinesOf(entry) ==
    (IF Strip(entry.intro_text, Whitespace) # <<>>
     THEN <<[kind |-> "intro", file |-> entry.file_path]>> ELSE <<>>)
    \o (IF Strip(entry.outro_text, Whitespace) # <<>>
        THEN <<[kind |-> "outro", file |-> entry.file_path]>> ELSE <<>>)
    \o (IF entry.repetition_flag
        THEN <<[kind |-> "repetition", file |-> entry.file_path]>> ELSE <<>>)

\* the lines that lines 510-520 write
LogLines(entries) ==
    Flatten([k \in 1..Len(entries) |-> LogLinesOf(entries[k])], 1, Len(entries))
    \o <<[kind |-> "summary", count |-> Len(entries)]>>

\* the log append raises and the exception leaves scan_folder before the
\* result is written
FinishEscalating ==
    /\ pc = "scan"
    /\ queue = <<>>
    /\ LET logging == opts.log_path /\ opts.apply_remediation /\ removed_entries # <<>>
           lines == LogLines(removed_entries)
           result == [emitted |-> TRUE, all |-> all_scores,
                      has_over |-> opts.has_threshold,
                      over |-> IF opts.has_threshold THEN over_scores ELSE <<>>]
       IN  \/ /\ ~logging
              /\ output' = result
              /\ UNCHANGED <<log, faults>>
           \/ /\ logging
              /\ log' = log \o lines
              /\ output' = result
              /\ UNCHANGED faults
           \/ /\ logging
              /\ faults < MaxFaults
              /\ faults' = faults + 1
              /\ \E k \in 0..(Len(lines) - 1) : log' = log \o SubSeq(lines, 1, k)
              /\ output' = NoOutput
    /\ pc' = "done"
    /\ UNCHANGED <<files, disk, opts, pass, queue, all_scores, over_scores,
                   removed_entries, hist, reports, text_vars, race_vars>>

\* after the loop, the log append whenever a log path is given
FinishLoggingAlways ==
    /\ pc = "scan"
    /\ queue = <<>>
    /\ LET logging == opts.log_path
           lines == LogLines(removed_entries)
       IN  \/ /\ ~logging
              /\ UNCHANGED <<log, faults>>
           \/ /\ logging
              /\ log' = log \o lines
              /\ UNCHANGED faults
           \/ /\ logging
              /\ faults < MaxFaults
              /\ faults' = faults + 1
              /\ \E k \in 0..(Len(lines) - 1) : log' = log \o SubSeq(lines, 1, k)
    /\ output' = [emitted |-> TRUE, all |-> all_scores,
                  has_over |-> opts.has_threshold,
                  over |-> IF opts.has_threshold THEN over_scores ELSE <<>>]
    /\ pc' = "done"
    /\ UNCHANGED <<files, disk, opts, pass, queue, all_scores, over_scores,
                   removed_entries, hist, reports, text_vars, race_vars>>

\* lines 508-528: after the loop, the log append and the result.  An append
\* that raises leaves the lines written before it in the log.
Finish ==
    /\ pc = "scan"
    /\ queue = <<>>
    /\ LET logging == opts.log_path /\ opts.apply_remediation /\ removed_entries # <<>>
           lines == LogLines(removed_entries)
       IN  \/ /\ ~logging
              /\ UNCHANGED <<log, faults>>
           \/ /\ logging
              /\ log' = log \o lines
              /\ UNCHANGED faults
           \/ /\ logging
              /\ faults < MaxFaults
              /\ faults' = faults + 1
              /\ \E k \in 0..(Len(lines) - 1) : log' = log \o SubSeq(lines, 1, k)
    /\ output' = [emitted |-> TRUE, all |-> all_scores,
                  has_over |-> opts.has_threshold,
                  over |-> IF opts.has_threshold THEN over_scores ELSE <<>>]
    /\ pc' = "done"
    /\ UNCHANGED <<files, disk, opts, pass, queue, all_scores, over_scores,
                   removed_entries, hist, reports, text_vars, race_vars>>

Next == Begin \/ SkipFile \/ ScanFile \/ Finish

Spec == Init /\ [][Next]_vars

(***************************************************************************)
(* Text operations: find_prefix, find_suffix, strip_ai_wrapping and the     *)
(* scores, applied to one text                                             *)
(***************************************************************************)
\* the length of the texts made of FreeChars
MaxFree == 3

FreeChars == {"a", "b", " ", "\n", "-", "*"}

FreeTexts == UNION {[1..n -> FreeChars] : n \in 0..MaxFree}

\* s repeated n times
Times(s, n) == Flatten([k \in 1..n |-> s], 1, n)

Intros ==
    { <<>>,
      <<"O","k","a","y",","," ","h","e","r","e"," ","i","s"," ","t","h","e"," ","t","r","a","n","s","c","r","i","p","t","i","o","n"," ","o","f"," ","t","h","e"," ","t","e","x","t",":","\n">>,
      <<"H","e","r","e"," ","i","s"," ","t","h","e"," ","t","r","a","n","s","c","r","i","p","t","i","o","n",":"," ">>,
      <<"H","e","r","e"," ","l","i","e","s"," ","J","o","h","n","."," ","H","e"," ","i","s"," ","t","h","e"," ","b","e","s","t"," ","a","t"," ","t","r","a","n","s","c","r","i","p","t","i","o","n"," ","t","o","d","a","y",".","\n">>,
      <<"O","k","a","y",","," ","h","e","r","e"," ","i","s"," ","t","h","e"," ","t","r","a","n","s","c","r","i","p","t","i","o","n"," ","o","f"," ","t","h","e"," ","t","e","x","t",":"," ","N","o","t","e","s"," ","f","r","o","m"," ","t","h","e"," ","i","m","a","g","e"," ","a","r","c","h","i","v","e",".","\n">>,
      <<"S","u","r","e",","," ","h","e","r","e"," ","i","t"," ","i","s",":","\n","\n">> }

Bodies ==
    { <<"[","0","0",":","0","1","]"," ","H","e","l","l","o"," ","t","h","e","r","e",".","\n","[","b","l","a","n","k","]"," ","[","u","n","s","u","r","e","]","\n">>,
      <<"H","e","l","l","o"," ","*","b","i","g","*"," ","w","o","r","l","d","\n">>,
      <<"-","-","\n","-","-","\n">>,
      <<"[","b","l","a","n","k","]","\n","[","b","l","a","n","k","]","\n">>,
      <<".",".",".","\n">> }

CatalogOutro ==
    <<"L","e","t"," ","m","e"," ","k","n","o","w"," ","i","f"," ","y","o","u"," ","n","e","e","d"," ","a","n","y","t","h","i","n","g"," ","e","l","s","e",".">>

\* what follows the catalog outro: nothing, a line break, a short line, a
\* paragraph, and tails at the limits of the tail test (the tail begins with
\* the "." of the outro)
Tails ==
    { <<>>,
      <<"\n">>,
      <<" ","R","e","a","l"," ","t","r","a","i","l","i","n","g"," ","c","o","n","t","e","n","t"," ","h","e","r","e",".">>,
      <<"\n","\n","R","e","a","l"," ","t","r","a","i","l","i","n","g"," ","c","o","n","t","e","n","t"," ","h","e","r","e",".","\n">>,
      <<" ">> \o Times(<<"w", " ">>, 16),
      <<" ">> \o Times(<<"w", " ">>, 17),
      <<" ">> \o Times(<<"x">>, 118),
      <<" ">> \o Times(<<"x">>, 119) }

Outros ==
    { <<>>,
      <<"F","e","e","l"," ","f","r","e","e"," ","t","o"," ","a","s","k"," ","i","f"," ","a","n","y","t","h","i","n","g"," ","i","s"," ","u","n","c","l","e","a","r","!","\n">>,
      <<"L","e","t"," ","m","e"," ","k","n","o","w"," ","s","o","o","n"," ","i","f"," ","y","o","u"," ","r","e","a","l","l","y"," ","n","e","e","d"," ","a","n","y","t","h","i","n","g"," ","e","l","s","e","\n">> }
    \cup {CatalogOutro \o t : t \in Tails}

\* texts for the repetition estimate: a sentence of 10 words on 5 lines with
\* blank lines between, one line of 18 equal words, repeated lines before a
\* line of 20 equal words, and lines equal up to case and spaces
RepetitionTexts ==
    { <<"t","h","e"," ","q","u","i","c","k"," ","b","r","o","w","n"," ","f","o","x"," ","j","u","m","p","s"," ","o","v","e","r"," ","t","h","e"," ","l","a","z","y"," ","d","o","g"," ","t","o","d","a","y","\n","\n","t","h","e"," ","q","u","i","c","k"," ","b","r","o","w","n"," ","f","o","x"," ","j","u","m","p","s"," ","o","v","e","r"," ","t","h","e"," ","l","a","z","y"," ","d","o","g"," ","t","o","d","a","y","\n","\n","t","h","e"," ","q","u","i","c","k"," ","b","r","o","w","n"," ","f","o","x"," ","j","u","m","p","s"," ","o","v","e","r"," ","t","h","e"," ","l","a","z","y"," ","d","o","g"," ","t","o","d","a","y","\n","\n","t","h","e"," ","q","u","i","c","k"," ","b","r","o","w","n"," ","f","o","x"," ","j","u","m","p","s"," ","o","v","e","r"," ","t","h","e"," ","l","a","z","y"," ","d","o","g"," ","t","o","d","a","y","\n","\n","t","h","e"," ","q","u","i","c","k"," ","b","r","o","w","n"," ","f","o","x"," ","j","u","m","p","s"," ","o","v","e","r"," ","t","h","e"," ","l","a","z","y"," ","d","o","g"," ","t","o","d","a","y","\n">>,
      Times(<<"w", " ">>, 17) \o <<"w", "\n">>,
      <<"x"," ","y","\n","x"," ","y","\n">> \o Times(<<"w", " ">>, 19) \o <<"w", "\n">>,
      <<"O","n","e"," ","t","w","o","\n","O","N","E"," ","T","W","O"," ","\n","t","h","r","e","e","\n">> }

\* texts for the heuristics: chatter lines that no catalog phrase matches, with
\* blank lines around them and quotes, and first lines of 240 and of more
\* characters
HeuristicTexts ==
    { <<"\n"," ","\n","S","u","r","e",","," ","h","e","r","e"," ","i","t"," ","i","s",":","\n","\n"," ","\n","B","o","d","y"," ","l","i","n","e"," ","o","n","e",".","\n","B","o","d","y"," ","l","i","n","e"," ","t","w","o",".","\n","\n","\n","T","h","a","n","k","s",","," ","h","a","p","p","y"," ","t","o"," ","h","e","l","p"," ","m","o","r","e","!","\n","\n">>,
      <<"\"","O","k","a","y",","," ","s","e","e"," ","b","e","l","o","w",":","\"","\n","\n"," "," ","B","o","d","y",".","\n">>,
      <<"B","o","d","y"," ","l","i","n","e"," ","o","n","e",".","\n","\"","B","o","d","y"," ","t","w","o",".","\"","\n","\n","N","e","e","d"," ","m","o","r","e","?","\n">>,
      <<"S","u","r","e"," ">> \o Times(<<"x">>, 234) \o <<":","\n","B","o","d","y",".","\n">>,
      <<"S","u","r","e",","," ">> \o Times(<<"x">>, 240) \o <<":","\n","B","o","d","y",".","\n">> }

\* first lines with a colon at the end and a word of INTRO_LEADS that is not
\* the first word, or a phrase of the last list of _looks_like_intro
LeadTexts ==
    { <<"N","o","t","e","s"," ","w","e"," ","t","o","o","k",":","\n","B","o","d","y"," ","t","e","x","t",".","\n">>,
      <<"U","n","f","o","r","t","u","n","a","t","e","l","y"," ","t","h","e"," ","i","m","a","g","e"," ","i","s"," ","b","l","u","r","r","y",":","\n","B","o","d","y"," ","t","e","x","t",".","\n">> }

\* texts at the limits of the windows: the last token of the intro phrase
\* starts at offset 200 and at 201, and the first token of the outro phrase
\* ends 200 and 201 characters before the end of the text
WindowTexts ==
    { <<"H","e","r","e"," ","i","s"," ","t","h","e"," ">> \o Times(<<"x">>, 187)
          \o <<" ","t","r","a","n","s","c","r","i","p","t","i","o","n",":"," ","B","o","d","y",".","\n","L","e","t"," ">>
          \o Times(<<"x">>, 163) \o <<" ","m","e"," ","k","n","o","w"," ","i","f"," ","y","o","u"," ","n","e","e","d"," ","a","n","y","t","h","i","n","g"," ","e","l","s","e",".","\n">>,
      <<"H","e","r","e"," ","i","s"," ","t","h","e"," ">> \o Times(<<"x">>, 188)
          \o <<" ","t","r","a","n","s","c","r","i","p","t","i","o","n",":"," ","B","o","d","y",".","\n","L","e","t"," ">>
          \o Times(<<"x">>, 164) \o <<" ","m","e"," ","k","n","o","w"," ","i","f"," ","y","o","u"," ","n","e","e","d"," ","a","n","y","t","h","i","n","g"," ","e","l","s","e",".","\n">> }

\* a catalog outro with more than one character of white space after it
TrailingTexts ==
    { <<"B","o","d","y"," ","t","e","x","t","\n","L","e","t"," ","m","e"," ","k","n","o","w"," ","i","f"," ","y","o","u"," ","n","e","e","d"," ","a","n","y","t","h","i","n","g"," ","e","l","s","e",".","\n","\n">>,
      <<"B","o","d","y"," ","t","e","x","t","\n","L","e","t"," ","m","e"," ","k","n","o","w"," ","i","f"," ","y","o","u"," ","n","e","e","d"," ","a","n","y","t","h","i","n","g"," ","e","l","s","e","."," "," ","\n","\n">> }

WrappedBody ==
    <<"[","0","0",":","0","1","]"," ","H","e","l","l","o"," ","t","h","e","r","e",".","\n","[","b","l","a","n","k","]"," ","[","u","n","s","u","r","e","]","\n">>

Texts ==
    {i \o WrappedBody \o o : i \in Intros, o \in Outros}
    \cup {i \o b \o o : i \in {<<>>, <<"H","e","r","e"," ","i","s"," ","t","h","e"," ","t","r","a","n","s","c","r","i","p","t","i","o","n",":"," ">>},
                        b \in Bodies,
                        o \in {<<>>, CatalogOutro \o <<"\n">>}}
    \cup RepetitionTexts
    \cup HeuristicTexts
    \cup LeadTexts
    \cup WindowTexts
    \cup TrailingTexts
    \cup FreeTexts

InitText ==
    /\ text \in Texts
    /\ tpc = "start"
    /\ anchors = <<>>
    /\ stripped = <<>>
    /\ stats = <<>>
    /\ reports = {}
    /\ files = {}
    /\ disk = <<>>
    /\ opts = [has_threshold |-> FALSE, threshold |-> 0,
               log_path |-> FALSE, apply_remediation |-> FALSE]
    /\ pc = "idle"
    /\ procs = <<>>
    /\ pass = 0
    /\ queue = <<>>
    /\ all_scores = <<>>
    /\ over_scores = <<>>
    /\ removed_entries = <<>>
    /\ log = <<>>
    /\ output = NoOutput
    /\ faults = 0
    /\ hist = <<>>

\* find_prefix and find_suffix on the text, with the matches they rest on
Anchor ==
    /\ tpc = "start"
    /\ anchors' = [intro |-> find_prefix(text, INTRO_TRIGGERS),
                   prefix |-> PrefixMatch(text, INTRO_TRIGGERS),
                   outro |-> find_suffix(text, OUTRO_TRIGGERS),
                   suffix |-> SuffixMatch(text, OUTRO_TRIGGERS)]
    /\ tpc' = "anchored"
    /\ UNCHANGED <<text, stripped, stats, scan_vars, race_vars>>

\* strip_ai_wrapping on the text, with the span it keeps before the markdown
\* clean-up
StripText ==
    /\ tpc = "anchored"
    /\ stripped' = [result |-> strip_ai_wrapping(text), unwrap |-> Unwrap(text)]
    /\ tpc' = "stripped"
    /\ UNCHANGED <<text, anchors, stats, scan_vars, race_vars>>

\* lines 460-463: the scores of the cleaned text, and compute_confidence on it
Score ==
    /\ tpc = "stripped"
    /\ stats' = [placeholder |-> compute_placeholder_stats(stripped.result.cleaned),
                 repetition_ratio |-> compute_repetition_ratio(stripped.result.cleaned),
                 confidence |-> compute_confidence(stripped.result.cleaned),
                 report |-> Measured(<<>>, stripped.result)]
    /\ tpc' = "scored"
    /\ UNCHANGED <<text, anchors, stripped, scan_vars, race_vars>>

NextText == Anchor \/ StripText \/ Score

SpecText == InitText /\ [][NextText]_vars

(***************************************************************************)
(* Scoring: lines 462-472 applied to the placeholder statistics and the    *)
(* repetition ratio of a cleaned text                                      *)
(***************************************************************************)
\* the token count of the short texts scored
MaxTokens == 5

\* the denominators of the repetition ratios scored
MaxDen == 4

\* what compute_placeholder_stats returns for a text of total tokens, count
\* of them placeholders: short texts, and a transcript of 20001 tokens
StatsPool ==
    {[ratio |-> IF c[2] = 0 THEN Frac(0, 1) ELSE Frac(c[1], c[2]),
      count |-> c[1], total |-> c[2]] :
        c \in {d \in (0..MaxTokens) \X (0..MaxTokens) : d[1] <= d[2]}}
    \cup {[ratio |-> Frac(count, 20001), count |-> count, total |-> 20001] :
             count \in 0..2}

\* what compute_repetition_ratio returns: a fraction of the lines or of the
\* windows of a text
RatioPool ==
    {Frac(x[1], x[2]) : x \in {y \in (0..MaxDen) \X (1..MaxDen) : y[1] <= y[2]}}

\* strip_ai_wrapping found nothing to remove
NoWrapping == [cleaned |-> <<>>, intro_text |-> <<>>, outro_text |-> <<>>]

InitScore ==
    /\ stats \in [placeholder : StatsPool, repetition_ratio : RatioPool]
    /\ tpc = "measured"
    /\ text = <<>>
    /\ anchors = <<>>
    /\ stripped = <<>>
    /\ reports = {}
    /\ files = {}
    /\ disk = <<>>
    /\ opts = [has_threshold |-> FALSE, threshold |-> 0,
               log_path |-> FALSE, apply_remediation |-> FALSE]
    /\ pc = "idle"
    /\ procs = <<>>
    /\ pass = 0
    /\ queue = <<>>
    /\ all_scores = <<>>
    /\ over_scores = <<>>
    /\ removed_entries = <<>>
    /\ log = <<>>
    /\ output = NoOutput
    /\ faults = 0
    /\ hist = <<>>

\* lines 462-472: the confidence and the entry, from the statistics of lines
\* 460-461
ScoreEntry ==
    /\ tpc = "measured"
    /\ stats' = [placeholder |-> stats.placeholder,
                 repetition_ratio |-> stats.repetition_ratio,
                 confidence |-> Confidence(stats.placeholder.ratio,
                                           stats.repetition_ratio),
                 report |-> Scored(<<>>, NoWrapping, stats.placeholder,
                                   stats.repetition_ratio)]
    /\ tpc' = "scored"
    /\ UNCHANGED <<text, anchors, stripped, scan_vars, race_vars>>

NextScore == ScoreEntry

SpecScore == InitScore /\ [][NextScore]_vars

(***************************************************************************)
(* A folder of one transcript with markdown in it, scanned by scan_folder   *)
(***************************************************************************)
\* transcripts with markdown: a heading inside a heading, a heading that the
\* removal of "*" makes, a link inside a link, emphasis, and plain text
MarkdownPool ==
    { <<"#"," ","#"," ","T","i","t","l","e","\n">>,
      <<"#","*","#"," ","x","\n">>,
      <<"[","[","a","]","(","b",")","]","(","c",")","\n">>,
      <<"H","e","l","l","o"," ","*","b","i","g","*"," ","w","o","r","l","d","\n">>,
      <<"x","\n">> }

RECURSIVE RewrittenTexts(_, _)
\* the texts a file that held a text of pool can hold after k calls of
\* scan_folder: what it held before, what write_text was handed, and what a
\* failed write_text left
RewrittenTexts(pool, k) ==
    IF k = 0 THEN pool
    ELSE LET before == RewrittenTexts(pool, k - 1)
             written == {Normalized(strip_ai_wrapping(t).cleaned) : t \in before}
         IN  before \cup written \cup UNION {TornWrites(w) : w \in written}

MarkdownFile == <<"a",".","t","x","t">>

InitMarkdown ==
    /\ reports = {[text |-> t, report |-> FileReport(<<>>, t)] :
                     t \in RewrittenTexts(MarkdownPool, MaxPasses)}
    /\ files = {MarkdownFile, OtherName}
    /\ disk \in [files -> MarkdownPool]
    /\ disk[OtherName] = CHOOSE c \in MarkdownPool : TRUE
    /\ opts \in [has_threshold : BOOLEAN, threshold : ThresholdPool,
                 log_path : BOOLEAN, apply_remediation : BOOLEAN]
    /\ pc = "idle"
    /\ procs = <<>>
    /\ pass = 0
    /\ queue = <<>>
    /\ all_scores = <<>>
    /\ over_scores = <<>>
    /\ removed_entries = <<>>
    /\ log = <<>>
    /\ output = NoOutput
    /\ faults = 0
    /\ hist = <<>>
    /\ text = <<>>
    /\ tpc = "idle"
    /\ anchors = <<>>
    /\ stripped = <<>>
    /\ stats = <<>>

SpecMarkdown == InitMarkdown /\ [][Next]_vars

(***************************************************************************)
(* Two scan_folder calls with remediation running at once on a folder of    *)
(* one transcript.  Each call is a process of its own; its steps are the   *)
(* system calls of one turn of the loop: the read of read_text, and the    *)
(* open (mode "w", which empties the file) and the write of write_text.    *)
(***************************************************************************)
Racers == {"first", "second"}

Other(p) == CHOOSE q \in Racers : q # p

InitRace ==
    /\ reports = Reports
    /\ files = {MarkdownFile}
    /\ disk \in [files -> ContentPool]
    /\ opts = [has_threshold |-> FALSE, threshold |-> 0,
               log_path |-> FALSE, apply_remediation |-> TRUE]
    /\ procs = [original |-> disk[MarkdownFile],
                run |-> [p \in Racers |->
                            [pc |-> "read", alone |-> FALSE, text |-> <<>>,
                             cleaned_text |-> <<>>, entry |-> <<>>,
                             output |-> NoOutput]]]
    /\ pc = "idle"
    /\ pass = 0
    /\ queue = <<>>
    /\ all_scores = <<>>
    /\ over_scores = <<>>
    /\ removed_entries = <<>>
    /\ log = <<>>
    /\ output = NoOutput
    /\ faults = 0
    /\ hist = <<>>
    /\ text = <<>>
    /\ tpc = "idle"
    /\ anchors = <<>>
    /\ stripped = <<>>
    /\ stats = <<>>

\* lines 447-452 and 460-506: the call reads the file and computes the cleaned
\* text and the entry.  alone: the other call had ended before this read.
ReadFile(p) ==
    /\ procs.run[p].pc = "read"
    /\ \E rep \in {ReportOf(MarkdownFile, disk[MarkdownFile])} :
           procs' = [procs EXCEPT !.run[p] =
                        [pc |-> IF opts.apply_remediation
                                   /\ rep.cleaned_text # disk[MarkdownFile]
                                THEN "open" ELSE "emit",
                         alone |-> procs.run[Other(p)].pc = "done",
                         text |-> disk[MarkdownFile],
                         cleaned_text |-> rep.cleaned_text,
                         entry |-> rep.entry,
                         output |-> NoOutput]]
    /\ UNCHANGED <<scan_vars, text_vars>>

\* line 457, write_text opens the file with mode "w": the file is empty
OpenFile(p) ==
    /\ procs.run[p].pc = "open"
    /\ disk' = [disk EXCEPT ![MarkdownFile] = <<>>]
    /\ procs' = [procs EXCEPT !.run[p].pc = "write"]
    /\ UNCHANGED <<files, opts, pc, pass, queue, all_scores, over_scores,
                   removed_entries, log, output, faults, hist, reports, text_vars>>

\* write_text returns with the file left as the open made it
WriteFileUnfinished(p) ==
    /\ procs.run[p].pc = "write"
    /\ procs' = [procs EXCEPT !.run[p].pc = "emit"]
    /\ UNCHANGED <<scan_vars, text_vars>>

\* lines 454-457, write_text writes the normalized text and closes the file
WriteFile(p) ==
    /\ procs.run[p].pc = "write"
    /\ disk' = [disk EXCEPT ![MarkdownFile] = Normalized(procs.run[p].cleaned_text)]
    /\ procs' = [procs EXCEPT !.run[p].pc = "emit"]
    /\ UNCHANGED <<files, opts, pc, pass, queue, all_scores, over_scores,
                   removed_entries, log, output, faults, hist, reports, text_vars>>

\* lines 504 and 524-528: the call writes its result and ends
EmitResult(p) ==
    /\ procs.run[p].pc = "emit"
    /\ procs' = [procs EXCEPT !.run[p].pc = "done",
                              !.run[p].output =
                                  [emitted |-> TRUE, all |-> <<procs.run[p].entry>>,
                                   has_over |-> FALSE, over |-> <<>>]]
    /\ UNCHANGED <<scan_vars, text_vars>>

NextRace ==
    \E p \in Racers : ReadFile(p) \/ OpenFile(p) \/ WriteFile(p) \/ EmitResult(p)

SpecRace == InitRace /\ [][NextRace]_vars

(***************************************************************************)
(* Properties                                                              *)
(***************************************************************************)
FracEq(a, b) == a.num * b.den = b.num * a.den

InUnit(x) == FracLeq(Frac(0, 1), x) /\ FracLeq(x, Frac(1, 1))

NoNewline(s) == \A i \in 1..Len(s) : s[i] # "\n"

\* s is text[a:b] for some a <= b
IsSubstring(s, t) ==
    \E a \in 0..(Len(t) - Len(s)) : Slice(t, a, a + Len(s)) = s

RECURSIVE MatchFrom(_, _, _, _, _)
\* the position in t after the characters s[lo..hi] have been found in t, in
\* order and each as early as possible, from position pos on (beyond
\* Len(t) + 1 when one of them is not found)
MatchFrom(s, t, lo, hi, pos) ==
    IF lo > hi THEN pos
    ELSE IF lo = hi
         THEN LET Is(k) == t[k] = s[lo]
              IN  Least(pos, Len(t), Is) + 1
         ELSE LET next == MatchFrom(s, t, lo, (lo + hi) \div 2, pos)
              IN  IF next > Len(t) + 1 THEN next
                  ELSE MatchFrom(s, t, (lo + hi) \div 2 + 1, hi, next)

\* s is t with characters deleted
IsSubsequence(s, t) == MatchFrom(s, t, 1, Len(s), 1) <= Len(t) + 1

\* the tokens of phrase are the text tokens s, s + 1, ...
ConsecutiveAt(toks, phrase, s) ==
    LET phrase_tokens == _tokens_from_phrase(phrase)
    IN  /\ s + Len(phrase_tokens) - 1 <= Len(toks)
        /\ \A k \in 1..Len(phrase_tokens) : toks[s + k - 1] = phrase_tokens[k]

\* the text begins with the phrase: its tokens are the first text tokens and
\* only characters of _LEADING_STRIP come before them
BeginsWith(t, phrase) ==
    LET toks == _tokenize_with_pos(t)
    IN  /\ ConsecutiveAt(_normalize_tokens(t), phrase, 1)
        /\ Strip(Slice(t, 0, toks[1].start), _LEADING_STRIP) = <<>>

\* the records of hist that are the last one of their file
LastVisit(k) == \A m \in (k + 1)..Len(hist) : hist[m].file # hist[k].file

\* C1: after a pass with remediation has rewritten a file, the next pass
\* removes no intro and no outro from it and computes the same cleaned text.
C1_Idempotent ==
    \A i \in 1..Len(hist) : \A j \in (i + 1)..Len(hist) :
        (/\ hist[i].file = hist[j].file
         /\ hist[i].write = "ok"
         /\ hist[j].read
         /\ hist[j].pass = hist[i].pass + 1)
        => /\ hist[j].intro_text = <<>>
           /\ hist[j].outro_text = <<>>
           /\ hist[j].cleaned_text = hist[i].cleaned_text

\* C2 as claimed: the cleaned text of strip_ai_wrapping is a contiguous
\* substring of the text.
C2_CleanedIsSubstring ==
    tpc \in {"stripped", "scored"} => IsSubstring(stripped.result.cleaned, text)

\* C2 as amended: the text left when the intro and the outro are taken off is
\* the contiguous substring text[from:to], and the cleaned text is that
\* substring with characters deleted by the markdown clean-up, none replaced
\* and none reordered.
C2_BodyIsSubstring ==
    tpc \in {"stripped", "scored"} =>
        LET u == stripped.unwrap
        IN  /\ 0 <= u.from /\ u.from <= u.to /\ u.to <= Len(text)
            /\ u.body = Slice(text, u.from, u.to)
            /\ IsSubsequence(stripped.result.cleaned, u.body)
            /\ stripped.result.intro_text = u.intro_text
            /\ stripped.result.outro_text = u.outro_text

\* an intro and an outro are removed and the markdown clean-up deletes more
C2_Witness ==
    /\ tpc = "stripped"
    /\ stripped.result.intro_text # <<>>
    /\ stripped.result.outro_text # <<>>
    /\ stripped.result.cleaned # stripped.unwrap.body
    /\ stripped.result.cleaned # <<>>

\* C3: a non-empty result of find_prefix means that the tokens of a catalog
\* phrase are the first text tokens, one after the other; a non-empty result
\* of find_suffix that the tokens of a catalog phrase are consecutive text
\* tokens.
C3_ExactTokenSequence ==
    tpc # "start" =>
        LET toks == _normalize_tokens(text)
        IN  /\ anchors.intro # <<>> =>
                  \E p \in 1..Len(INTRO_TRIGGERS) :
                      ConsecutiveAt(toks, INTRO_TRIGGERS[p], 1)
            /\ anchors.outro # <<>> =>
                  \E p \in 1..Len(OUTRO_TRIGGERS) : \E s \in 1..Len(toks) :
                      ConsecutiveAt(toks, OUTRO_TRIGGERS[p], s)

\* C4: when the text begins with intro phrase #2, not with phrase #1, and
\* content follows, find_prefix returns the text up to the end of phrase #2
\* and of the punctuation and whitespace after it, and no more.
C4_PhrasePrecedence ==
    (/\ tpc # "start"
     /\ BeginsWith(text, INTRO_TRIGGERS[2])
     /\ ~BeginsWith(text, INTRO_TRIGGERS[1])
     /\ Len(_tokenize_with_pos(text)) > Len(_tokens_from_phrase(INTRO_TRIGGERS[2])))
    => LET toks == _tokenize_with_pos(text)
           last == toks[Len(_tokens_from_phrase(INTRO_TRIGGERS[2]))]
       IN  anchors.intro = Slice(text, 0, SkipFwd(text, ExtendChars, last.end))

\* C5 as claimed: find_suffix returns no match whose text after the matched
\* phrase contains a newline, is longer than 120 characters or has more than
\* 16 tokens.
C5_TailRejected ==
    (tpc # "start" /\ anchors.suffix.found) =>
        LET tail == Slice(text, anchors.suffix.match_end, Len(text))
        IN  /\ NoNewline(tail)
            /\ Len(tail) <= 120
            /\ Len(FindAllWords(tail)) <= 16

\* C5 as amended: find_suffix returns no match whose text after the matched
\* phrase, once the whitespace, quotes and BOM around it are stripped,
\* contains a newline, is longer than 120 characters or has more than 16
\* tokens; the tail of a match it returns is part of the returned outro.
C5_StrippedTailRejected ==
    (tpc # "start" /\ anchors.suffix.found) =>
        LET tail == Strip(Slice(text, anchors.suffix.match_end, Len(text)),
                          _TRAILING_STRIP)
        IN  /\ NoNewline(tail)
            /\ Len(tail) <= 120
            /\ Len(FindAllWords(tail)) <= 16
            /\ anchors.suffix.start <= anchors.suffix.match_end
            /\ anchors.outro = RStrip(Slice(text, anchors.suffix.start, Len(text)),
                                      _TRAILING_STRIP)

\* a match is returned whose tail has words of its own
C5_Witness ==
    /\ tpc = "anchored"
    /\ anchors.suffix.found
    /\ FindAllWords(Slice(text, anchors.suffix.match_end, Len(text))) # <<>>

\* C6: the confidence lies in [0, 100], the placeholder ratio and the
\* repetition ratio lie in [0, 1], and the confidence is 0 once their sum
\* reaches 1.
C6_ScoresInRange ==
    tpc = "scored" =>
        LET p == stats.placeholder.ratio
            r == stats.repetition_ratio
            c == stats.report.confidence
        IN  /\ InUnit(p) /\ InUnit(r)
            /\ FracLeq(Frac(0, 1), c) /\ FracLeq(c, Frac(100, 1))
            /\ FracEq(c, stats.confidence)
            /\ stats.report.entry.confidence \in 0..10000
            /\ stats.report.entry.placeholder_ratio \in 0..10000
            /\ stats.report.entry.repetition_ratio \in 0..10000
            /\ FracLeq(Frac(1, 1), FracAdd(p, r)) => c.num = 0

\* the two ratios add up to more than 1 and the confidence is 0
C6_Witness ==
    /\ tpc = "scored"
    /\ ~FracLeq(FracAdd(stats.placeholder.ratio, stats.repetition_ratio), Frac(1, 1))
    /\ stats.report.confidence.num = 0

\* C7: a text without any word token has confidence 100 and placeholder
\* ratio 0.
C7_NoWordsFullConfidence ==
    (tpc = "scored" /\ FindAllWords(stripped.result.cleaned) = <<>>) =>
        /\ FracEq(stats.confidence, Frac(100, 1))
        /\ FracEq(stats.placeholder.ratio, Frac(0, 1))

\* C8: the content of a file on disk is what it was when the loop read it or
\* the complete normalized cleaned text, also after a write that failed.
C8_AtomicRewrite ==
    \A k \in 1..Len(hist) :
        LastVisit(k) => disk[hist[k].file] \in {hist[k].text, hist[k].data}

\* C9: with a threshold, over is the entries of all whose reported confidence
\* is at most the threshold, in the order of all; without one the result has
\* no over.
C9_OverIsFilter ==
    output.emitted =>
        LET AtMost(e) == e.confidence <= opts.threshold
        IN  /\ output.has_over = opts.has_threshold
            /\ opts.has_threshold => output.over = SelectSeq(output.all, AtMost)

\* C10: the entries of all are in the order of their file names compared
\* without regard to letter case.
C10_OrderIgnoresCase ==
    output.emitted =>
        \A i \in 1..Len(output.all) : \A j \in (i + 1)..Len(output.all) :
            ~StrLess(Lower(output.all[j].file), Lower(output.all[i].file))

\* the file text of the end-to-end example and the body it wraps
ExampleText ==
    <<"O","k","a","y",","," ","h","e","r","e"," ","i","s"," ","t","h","e"," ","t","r","a","n","s","c","r","i","p","t","i","o","n"," ","o","f"," ","t","h","e"," ","t","e","x","t",":","\n","[","0","0",":","0","1","]"," ","H","e","l","l","o"," ","t","h","e","r","e",".","\n","[","b","l","a","n","k","]"," ","[","u","n","s","u","r","e","]","\n","L","e","t"," ","m","e"," ","k","n","o","w"," ","i","f"," ","y","o","u"," ","n","e","e","d"," ","a","n","y","t","h","i","n","g"," ","e","l","s","e",".","\n">>

ExampleBody ==
    <<"[","0","0",":","0","1","]"," ","H","e","l","l","o"," ","t","h","e","r","e",".","\n","[","b","l","a","n","k","]"," ","[","u","n","s","u","r","e","]">>

\* C11: for the example text the cleaned body is the two transcript lines,
\* remove_intro_text is "Okay, here is the transcription of the text:" and
\* remove_outro_text is "Let me know if you need anything else.".
C11_EndToEndExample ==
    (tpc = "scored" /\ text = ExampleText) =>
        /\ stripped.result.cleaned = ExampleBody
        /\ stats.report.cleaned_text = ExampleBody
        /\ stats.report.entry.remove_intro_text =
               <<"O","k","a","y",","," ","h","e","r","e"," ","i","s"," ","t","h","e"," ","t","r","a","n","s","c","r","i","p","t","i","o","n"," ","o","f"," ","t","h","e"," ","t","e","x","t",":">>
        /\ stats.report.entry.remove_outro_text =
               <<"L","e","t"," ","m","e"," ","k","n","o","w"," ","i","f"," ","y","o","u"," ","n","e","e","d"," ","a","n","y","t","h","i","n","g"," ","e","l","s","e",".">>

\* the example text has been stripped and scored
C11_Witness ==
    /\ tpc = "scored"
    /\ text = ExampleText
    /\ stripped.result.intro_text # <<>>
    /\ stripped.result.outro_text # <<>>

\* C12 as claimed: the entry of the example body has placeholder_count 2 and
\* token_count 4.
C12_ExampleCounts ==
    (tpc = "scored" /\ stripped.result.cleaned = ExampleBody) =>
        /\ stats.report.entry.placeholder_count = 2
        /\ stats.report.entry.token_count = 4

\* C12 as amended: the entry of the example body has placeholder_count 2 and
\* token_count 5, the whitespace-separated tokens [00:01], Hello, there.,
\* [blank] and [unsure], and placeholder_ratio 0.4.
C12_ExampleCountsFive ==
    (tpc = "scored" /\ stripped.result.cleaned = ExampleBody) =>
        /\ stats.report.entry.placeholder_count = 2
        /\ stats.report.entry.token_count = 5
        /\ stats.report.entry.placeholder_ratio = 4000
        /\ stats.placeholder = [ratio |-> Frac(2, 5), count |-> 2, total |-> 5]

\* the example body has been scored, wrapped in an intro and an outro or bare
C12_Witness ==
    /\ tpc = "scored"
    /\ stripped.result.cleaned = ExampleBody
    /\ stats.placeholder.count = 2

\* the non-blank lines of the text, trimmed and lower-cased
TrimmedLines(t) ==
    LET ls == _gather_lines_with_offsets(t)
        val == [k \in 1..Len(ls) |-> Lower(Strip(LineText(t, ls[k]), Whitespace))]
    IN  PickRange(val, [k \in 1..Len(ls) |-> val[k] # <<>>], 1, Len(ls))

\* (a) the fraction of the non-blank lines whose value occurs more than once
RepeatedLineFraction(t) ==
    LET lines == TrimmedLines(t)
        Count(v) == Cardinality({k \in 1..Len(lines) : lines[k] = v})
        once == {v \in {lines[k] : k \in 1..Len(lines)} : Count(v) = 1}
    IN  IF Len(lines) = 0 THEN Frac(0, 1)
        ELSE Frac(Len(lines) - Cardinality(once), Len(lines))

\* (b) the sum of count - 1 over the windows of 8 words with count > 1, that
\* is the windows less the distinct windows, over the number of windows
RepeatedWindowFraction(t) ==
    LET words == FindAllWords(Lower(t))
        n == Len(words) - 7
        distinct == {SubSeq(words, i, i + 7) : i \in 1..n}
    IN  IF Len(words) < 16 THEN Frac(0, 1)
        ELSE Frac(n - Cardinality(distinct), n)

\* C13: compute_repetition_ratio is the larger of (a) and (b), (b) being 0
\* below 16 words, and a text of one sentence on 5 lines with blank lines
\* between has a ratio above 0.5.
C13_RepetitionIsMaximum ==
    tpc = "scored" =>
        LET t == stripped.result.cleaned
            a == RepeatedLineFraction(t)
            b == RepeatedWindowFraction(t)
            lines == TrimmedLines(t)
        IN  /\ FracEq(stats.repetition_ratio, FracMax(a, b))
            /\ FracEq(compute_repetition_ratio(t), stats.repetition_ratio)
            /\ Len(FindAllWords(t)) < 16 => FracEq(stats.repetition_ratio, a)
            /\ (Len(lines) = 5 /\ \A k \in 1..5 : lines[k] = lines[1])
                   => ~FracLeq(stats.repetition_ratio, Frac(1, 2))

\* both signals are positive and the window signal is the larger
C13_Witness ==
    /\ tpc = "scored"
    /\ ~FracLeq(RepeatedLineFraction(stripped.result.cleaned), Frac(0, 1))
    /\ ~FracLeq(RepeatedWindowFraction(stripped.result.cleaned),
                RepeatedLineFraction(stripped.result.cleaned))
    /\ ~FracLeq(Frac(1, 1), stats.repetition_ratio)

\* the statistics of the short texts
ShortStats == {ps \in StatsPool : ps.total <= MaxTokens}

\* (1 - min(1, p + r)) * 100
ConfidenceFormula(p, r) ==
    LET sum == FracAdd(p, r)
    IN  IF sum.num >= sum.den THEN Frac(0, 1)
        ELSE Frac((sum.den - sum.num) * 100, sum.den)

\* C14: the confidence is (1 - min(1, placeholder_ratio + repetition_ratio))
\* * 100; a larger placeholder ratio or a larger repetition ratio, the other
\* being the same, gives no larger confidence; the confidence is 0 once the
\* sum reaches 1 and 100 when both ratios are 0.
C14_ConfidenceMonotone ==
    (tpc = "scored" /\ stats.placeholder \in ShortStats) =>
        LET p == stats.placeholder.ratio
            r == stats.repetition_ratio
            c == stats.confidence
        IN  /\ FracEq(c, ConfidenceFormula(p, r))
            /\ FracEq(stats.report.confidence, c)
            /\ \A ps \in ShortStats :
                   FracLeq(p, ps.ratio) => FracLeq(Confidence(ps.ratio, r), c)
            /\ \A q \in RatioPool :
                   FracLeq(r, q) => FracLeq(Confidence(p, q), c)
            /\ FracLeq(Frac(1, 1), FracAdd(p, r)) => FracEq(c, Frac(0, 1))
            /\ (p.num = 0 /\ r.num = 0) => FracEq(c, Frac(100, 1))

\* both ratios are positive, their sum is below 1, and a larger repetition
\* ratio of the pool gives a smaller confidence
C14_Witness ==
    /\ tpc = "scored"
    /\ stats.placeholder.ratio.num > 0
    /\ stats.repetition_ratio.num > 0
    /\ ~FracLeq(Frac(1, 1), FracAdd(stats.placeholder.ratio, stats.repetition_ratio))
    /\ stats.placeholder \in ShortStats
    /\ \E q \in RatioPool :
           ~FracLeq(stats.confidence, Confidence(stats.placeholder.ratio, q))

\* C15: the reported confidence of an entry is 100 exactly when its cleaned
\* text has no placeholder token and no detected repetition.
C15_FullConfidenceIffClean ==
    tpc = "scored" =>
        (stats.report.entry.confidence = 10000
            <=> (/\ stats.report.entry.placeholder_count = 0
                 /\ stats.repetition_ratio.num = 0))

\* the records of hist made by the pass that is running
ThisPass == {k \in 1..Len(hist) : hist[k].pass = pass}

\* the files the pass could not read
Unread == {hist[k].file : k \in {j \in ThisPass : ~hist[j].read}}

\* the file names of a sequence of entries
FileNames(entries) == [i \in 1..Len(entries) |-> entries[i].file]

\* C16: when a pass ends, a file it could not read has no entry in all or
\* over, holds what it held, is named by no line the pass appends to the log,
\* and all lists every other .txt file of the folder.
C16_UnreadableSkipped ==
    [][(pc = "scan" /\ pc' = "done") =>
          \E unread \in {Unread} :
              /\ \A i \in 1..Len(output'.all) : output'.all[i].file \notin unread
              /\ \A i \in 1..Len(output'.over) : output'.over[i].file \notin unread
              /\ \A k \in ThisPass : ~hist[k].read => disk'[hist[k].file] = hist[k].text
              /\ \A i \in (Len(log) + 1)..Len(log') :
                     log'[i].kind # "summary" => log'[i].file \notin unread
              /\ FileNames(output'.all) = SortedPaths(Glob(files) \ unread)
      ]_vars

\* a pass has ended that could not read one file and went on to scan another
C16_Witness ==
    /\ pc = "done"
    /\ \E k \in ThisPass : \E j \in ThisPass :
           ~hist[k].read /\ k < j /\ hist[j].read
    /\ Len(output.all) > 0

\* the Scan Result of lines 524-528 for the lists of the loop
ScanResult(all, over, has_threshold) ==
    [emitted |-> TRUE, all |-> all, has_over |-> has_threshold,
     over |-> IF has_threshold THEN over ELSE <<>>]

\* C17: the step that appends to the log and emits the result changes no file
\* and emits the result of the lists of the loop, whether the append succeeds,
\* fails or is not made.
C17_LogFailureHarmless ==
    [][(pc = "scan" /\ pc' = "done") =>
          /\ disk' = disk
          /\ output' = ScanResult(all_scores, over_scores, opts.has_threshold)
          /\ output'.all = all_scores'
      ]_vars

\* the first pass has ended, its log append failed before the summary line,
\* and the result is emitted
C17_Witness ==
    /\ pc = "done"
    /\ pass = 1
    /\ opts.log_path /\ opts.apply_remediation /\ removed_entries # <<>>
    /\ (log = <<>> \/ log[Len(log)].kind # "summary")
    /\ output.emitted
    /\ Len(output.all) > 0

\* C18: when a pass ends, a file whose remediation write failed has in all the
\* entry that a turn of the loop gives the text it read, with the cleaned text
\* in memory, whatever became of the write; and every .txt file of the folder
\* has been visited by the loop.
C18_WriteFailureReported ==
    pc = "done" =>
        /\ output.emitted
        /\ \A k \in ThisPass : hist[k].write \in {"error", "torn"} =>
               \E i \in 1..Len(output.all) :
                   /\ output.all[i].file = hist[k].file
                   /\ output.all[i] = ReportOf(hist[k].file, hist[k].text).entry
                   /\ ReportOf(hist[k].file, hist[k].text).cleaned_text
                          = hist[k].cleaned_text
        /\ \A f \in Glob(files) : \E k \in ThisPass : hist[k].file = f

\* a pass has ended in which a write failed and a later file was scanned
C18_Witness ==
    /\ pc = "done"
    /\ \E k \in ThisPass : \E j \in ThisPass :
           /\ hist[k].write \in {"error", "torn"}
           /\ k < j /\ hist[j].read
    /\ Len(output.all) > 1

\* the lines the claim has a pass append for the file of one record of hist
ClaimedLinesOf(h) ==
    IF ~h.read THEN <<>>
    ELSE (IF Strip(h.intro_text, Whitespace) # <<>>
          THEN <<[kind |-> "intro", file |-> h.file]>> ELSE <<>>)
         \o (IF Strip(h.outro_text, Whitespace) # <<>>
             THEN <<[kind |-> "outro", file |-> h.file]>> ELSE <<>>)
         \o (IF ReportOf(h.file, h.text).repetition_flag
             THEN <<[kind |-> "repetition", file |-> h.file]>> ELSE <<>>)

\* the lines for the files of the running pass, in the order of the loop
ClaimedLines ==
    Flatten([k \in 1..Len(hist) |->
                IF k \in ThisPass THEN ClaimedLinesOf(hist[k]) ELSE <<>>],
            1, Len(hist))

\* the number of files the running pass overwrote
Overwritten == Cardinality({k \in ThisPass : hist[k].write = "ok"})

\* C19: with remediation and a log path, a pass without any I/O error
\* appends one line per removed intro, removed outro and repetition flag
\* and then a summary line with the number of files it overwrote (nothing at
\* all is accepted too when there is no line and no file overwritten).
C19_LogSummaryCountsOverwritten ==
    [][(/\ pc = "scan" /\ pc' = "done"
        /\ opts.apply_remediation /\ opts.log_path
        /\ faults' = 0) =>
          \/ log' = log \o ClaimedLines
                        \o <<[kind |-> "summary", count |-> Overwritten]>>
          \/ /\ ClaimedLines = <<>> /\ Overwritten = 0
             /\ log' = log
      ]_vars

LineTerminators == {"\n", "\r"}

\* s ends with one line terminator and no more
EndsWithOneTerminator(s) ==
    /\ Len(s) >= 1
    /\ s[Len(s)] \in LineTerminators
    /\ Len(s) >= 2 => s[Len(s) - 1] \notin LineTerminators

\* C20 as claimed: what remediation writes to a file ends with exactly one
\* line terminator, whatever the cleaned text.
C20_OneTrailingTerminator ==
    \A k \in 1..Len(hist) :
        hist[k].write = "ok" => EndsWithOneTerminator(hist[k].data)

\* C20 as amended: what remediation writes to a file is the cleaned text and
\* one line terminator when the cleaned text is not empty, and nothing when it
\* is empty; the file holds it after the write.
C20_NonEmptyEndsWithOneTerminator ==
    \A k \in 1..Len(hist) :
        hist[k].write = "ok" =>
            /\ hist[k].cleaned_text # hist[k].text
            /\ hist[k].cleaned_text # <<>> =>
                   /\ hist[k].data = hist[k].cleaned_text \o <<"\n">>
                   /\ EndsWithOneTerminator(hist[k].data)
            /\ hist[k].cleaned_text = <<>> => hist[k].data = <<>>
            /\ LastVisit(k) => disk[hist[k].file] = hist[k].data

\* a text without a line terminator at its end was rewritten with one, and an
\* empty cleaned text was written as an empty file
C20_Witness ==
    /\ \E k \in 1..Len(hist) :
           /\ hist[k].write = "ok"
           /\ hist[k].cleaned_text # <<>>
           /\ hist[k].text[Len(hist[k].text)] \notin LineTerminators
           /\ disk[hist[k].file] = hist[k].data
    /\ \E k \in 1..Len(hist) :
           hist[k].write = "ok" /\ hist[k].cleaned_text = <<>>

\* record k of hist is a pass with remediation reading a file that an earlier
\* pass has remediated and in which no intro and no outro is detected, with no
\* I/O error
RemediatedAgain(k) ==
    /\ opts.apply_remediation
    /\ hist[k].read
    /\ hist[k].write \in {"none", "ok"}
    /\ hist[k].intro_text = <<>>
    /\ hist[k].outro_text = <<>>
    /\ \E j \in 1..(k - 1) :
           /\ hist[j].file = hist[k].file
           /\ hist[j].write = "ok"
           /\ hist[j].data = hist[k].text

\* C21: a remediated file in which no intro or outro chatter is detectable is
\* left byte-for-byte unchanged by a further remediation pass, and that pass
\* reports no remove_intro_text and no remove_outro_text for it.
C21_RemediatedFileUnchanged ==
    \A k \in 1..Len(hist) :
        RemediatedAgain(k) =>
            /\ hist[k].write = "ok" => hist[k].data = hist[k].text
            /\ LastVisit(k) =>
                   /\ disk[hist[k].file] = hist[k].text
                   /\ pc = "done" =>
                          \A e \in 1..Len(output.all) :
                              /\ output.all[e].remove_intro_text = <<>>
                              /\ output.all[e].remove_outro_text = <<>>

\* the step is a turn of the for loop on file f that reads f
TurnOn(f) ==
    /\ pc = "scan"
    /\ queue # <<>>
    /\ f = Head(queue)
    /\ queue' = Tail(queue)
    /\ hist' = Append(hist, hist'[Len(hist')])
    /\ hist'[Len(hist')].file = f
    /\ hist'[Len(hist')].pass = pass
    /\ hist'[Len(hist')].read
    /\ hist'[Len(hist')].text = disk[f]

\* C22: files are processed one after another.  Within a pass no file is
\* visited twice, a pass that has ended has read (or tried to read) every
\* file of the glob once, and a file is written only in the turn of the loop
\* that has read it, before the loop goes on to the next file.
C22_OneFileAtATime ==
    /\ [](\A i \in ThisPass : \A j \in ThisPass :
              i < j => hist[i].file # hist[j].file)
    /\ [](pc = "done" => {hist[k].file : k \in ThisPass} = Glob(files))
    /\ [][/\ \A f \in files : disk'[f] # disk[f] => TurnOn(f)
          /\ Len(hist') > Len(hist) =>
                 /\ Len(hist') = Len(hist) + 1
                 /\ hist'[Len(hist')].write # "none" => TurnOn(hist'[Len(hist')].file)
                 /\ \A f \in files \ {hist'[Len(hist')].file} : disk'[f] = disk[f]]_vars

\* a pass has ended that read two files and rewrote both
C22_Witness ==
    /\ pc = "done"
    /\ Cardinality(ThisPass) = 2
    /\ \A k \in ThisPass : hist[k].read /\ hist[k].write = "ok"
    /\ \E k \in ThisPass : hist[k].data # hist[k].text

\* what one pass with remediation leaves in a file that holds t
SerialWrite(t) ==
    IF ReportOf(MarkdownFile, t).cleaned_text # t
    THEN Normalized(ReportOf(MarkdownFile, t).cleaned_text)
    ELSE t

\* the file after two passes with remediation, one after the other
SerialFinal(t) == SerialWrite(SerialWrite(t))

\* the entries that two passes one after the other report
SerialEntries(t) ==
    {ReportOf(MarkdownFile, t).entry, ReportOf(MarkdownFile, SerialWrite(t)).entry}

\* pass p has read a content that is neither the original nor what the other
\* pass writes
DirtyRead(p) ==
    /\ procs.run[p].pc # "read"
    /\ procs.run[p].text # procs.original
    /\ ~(/\ procs.run[Other(p)].pc # "read"
         /\ procs.run[p].text = Normalized(procs.run[Other(p)].cleaned_text))

AllDone == \A p \in Racers : procs.run[p].pc = "done"

\* the file or an entry is not that of the two passes run one after the other
NotSerialOutcome ==
    /\ AllDone
    /\ \/ disk[MarkdownFile] # SerialFinal(procs.original)
       \/ {procs.run[p].output.all[1] : p \in Racers} # SerialEntries(procs.original)

\* C23: two remediation passes over the same file can race.  Run one after
\* the other (a pass reads after the other has ended) they do not: the first
\* reads the original, the second what the first left, and file and entries
\* are those of SerialFinal and SerialEntries.  Run at once they can: see
\* C23_Witness for the interleaving.
C23_SerialPassesDoNotRace ==
    \A p \in Racers :
        (procs.run[p].pc # "read" /\ procs.run[p].alone) =>
            /\ ~DirtyRead(p)
            /\ ~DirtyRead(Other(p))
            /\ procs.run[Other(p)].text = procs.original
            /\ procs.run[p].text = SerialWrite(procs.original)
            /\ AllDone => ~NotSerialOutcome

\* the interleaving of the claim: no pass ran alone, one pass has read a
\* content that is neither the original nor the other pass's complete output
\* (the file as the other pass's open left it), and the file and the entries
\* at the end are not those of the passes run one after the other
C23_Witness ==
    /\ \A p \in Racers : ~procs.run[p].alone
    /\ \E p \in Racers : DirtyRead(p) /\ procs.run[p].text = <<>>
    /\ NotSerialOutcome
    /\ disk[MarkdownFile] # SerialFinal(procs.original)
    /\ {procs.run[p].output.all[1] : p \in Racers} # SerialEntries(procs.original)

\* C24: with the remediation flag off a scan writes no transcript file and
\* appends nothing to the log, whatever the folder holds, with or without a
\* threshold and a log path.
C24_FlagOffNoSideEffect ==
    [][~opts.apply_remediation =>
           /\ disk' = disk
           /\ log' = log
           /\ files' = files
           /\ \A k \in 1..Len(hist') : hist'[k].write = "none"]_vars

\* a pass without remediation and with a log path has ended, it found an
\* intro to remove in a file, and the file and the log are as they were
C24_Witness ==
    /\ pc = "done"
    /\ ~opts.apply_remediation
    /\ opts.log_path
    /\ log = <<>>
    /\ \E k \in ThisPass :
           /\ hist[k].read
           /\ hist[k].intro_text # <<>>
           /\ hist[k].cleaned_text # hist[k].text
           /\ disk[hist[k].file] = hist[k].text
           /\ \E e \in 1..Len(output.all) :
                  /\ output.all[e].file = hist[k].file
                  /\ output.all[e].remove_intro_text # <<>>

\* the length of a line after trimming, as the heuristics measure it
TrimmedLen(line) ==
    Len(Strip(Strip(line, _LEADING_STRIP \cup _TRAILING_STRIP), Whitespace))

\* s is the beginning of t that holds the first non-blank line of t, of at
\* most 240 characters after trimming, the blank lines before it and the
\* blank lines that follow it, and no more
IsFirstLineBlock(t, s) ==
    LET lines == _gather_lines_with_offsets(t)
        Blank(k) == IsBlank(LineText(t, lines[k]))
    IN  \E idx \in 1..Len(lines) : \E j \in idx..Len(lines) :
            /\ \A k \in 1..(idx - 1) : Blank(k)
            /\ ~Blank(idx)
            /\ TrimmedLen(LineText(t, lines[idx])) <= _MAX_HEURISTIC_CHARS
            /\ \A k \in (idx + 1)..j : Blank(k)
            /\ j = Len(lines) \/ ~Blank(j + 1)
            /\ s = Slice(t, 0, lines[j].end)

\* s is the end of t that holds the last non-blank line of t, of at most 240
\* characters after trimming, the blank lines before it and the blank lines
\* that follow it, and no more
IsLastLineBlock(t, s) ==
    LET lines == _gather_lines_with_offsets(t)
        Blank(k) == IsBlank(LineText(t, lines[k]))
    IN  \E idx \in 1..Len(lines) : \E i \in 1..idx :
            /\ \A k \in (idx + 1)..Len(lines) : Blank(k)
            /\ ~Blank(idx)
            /\ TrimmedLen(LineText(t, lines[idx])) <= _MAX_HEURISTIC_CHARS
            /\ \A k \in i..(idx - 1) : Blank(k)
            /\ i = 1 \/ ~Blank(i - 1)
            /\ s = Slice(t, lines[i].start, Len(t))

\* the text strip_ai_wrapping searches for an outro: the text without its intro
AfterIntro == Slice(text, stripped.unwrap.from, Len(text))

\* C25: the heuristic is a fallback.  When a catalog phrase matches, the
\* intro (outro) is the catalog match; when none does, an intro (outro) that
\* is removed is the first (last) non-blank line of the text, of at most 240
\* characters after trimming, with the blank lines next to it.
C25_HeuristicIsFallback ==
    tpc \in {"stripped", "scored"} =>
        /\ anchors.intro # <<>> => stripped.unwrap.intro_text = anchors.intro
        /\ (anchors.intro = <<>> /\ stripped.unwrap.intro_text # <<>>) =>
               IsFirstLineBlock(text, stripped.unwrap.intro_text)
        /\ \E suffix \in {find_suffix(AfterIntro, OUTRO_TRIGGERS)} :
               /\ suffix # <<>> => stripped.unwrap.outro_text = suffix
               /\ (suffix = <<>> /\ stripped.unwrap.outro_text # <<>>) =>
                      IsLastLineBlock(text, stripped.unwrap.outro_text)

\* no catalog phrase matches, and the heuristics remove a first line with
\* blank lines before and after it and a last line with blank lines before
\* and after it
C25_Witness ==
    /\ tpc = "stripped"
    /\ anchors.intro = <<>>
    /\ find_suffix(AfterIntro, OUTRO_TRIGGERS) = <<>>
    /\ Len(_gather_lines_with_offsets(stripped.unwrap.intro_text)) >= 5
    /\ Len(_gather_lines_with_offsets(stripped.unwrap.outro_text)) >= 4
    /\ stripped.result.intro_text = _detect_intro_heuristic(text)
    /\ stripped.result.outro_text = _detect_outro_heuristic(AfterIntro)

\* the first non-blank line of t, trimmed as _detect_intro_heuristic and
\* _looks_like_intro trim it
FirstSegment(t) ==
    LET lines == _gather_lines_with_offsets(t)
        NonBlank(k) == ~IsBlank(LineText(t, lines[k]))
    IN  Strip(Strip(LineText(t, lines[Least(1, Len(lines), NonBlank)]),
                    _LEADING_STRIP \cup _TRAILING_STRIP), Whitespace)

\* the first token of the segment is a word of INTRO_LEADS
LeadsWithLeadWord(segment) ==
    /\ _normalize_tokens(segment) # <<>>
    /\ _normalize_tokens(segment)[1] \in INTRO_LEADS

\* C26: when _looks_like_intro accepts a segment that holds no decisive
\* phrase, the segment has a transcription word, a text-reference phrase or a
\* colon at its end, and its first token is a lead word or it holds a
\* self-referential phrase.
C26_IntroNeedsLeadingWord ==
    (/\ tpc \in {"stripped", "scored"}
     /\ anchors.intro = <<>>
     /\ stripped.unwrap.intro_text # <<>>
     /\ _looks_like_intro(FirstSegment(text))
     /\ ~AnyIn(Lower(FirstSegment(text)), IntroStrongPhrases))
    => /\ \/ AnyIn(Lower(FirstSegment(text)), IntroTranscriptionWords)
          \/ AnyIn(Lower(FirstSegment(text)), IntroTextContext)
          \/ EndsWithChar(FirstSegment(text), ":")
       /\ \/ LeadsWithLeadWord(FirstSegment(text))
          \/ AnyIn(Lower(FirstSegment(text)), IntroSelfReference)

\* C27: the anchor search is bounded by the windows and anchored.  When
\* find_prefix returns an intro, only characters of _LEADING_STRIP (white
\* space, quotes, BOM) stand before the first matched token, and every
\* matched token starts at an offset of at most 200; when find_suffix returns
\* an outro, every matched token ends at most 200 characters before the end
\* of the text.
C27_AnchorsInWindow ==
    tpc # "start" =>
        \E toks \in {_tokenize_with_pos(text)} :
            /\ anchors.intro # <<>> =>
                   /\ anchors.prefix.found
                   /\ \A i \in 1..toks[anchors.prefix.first_tok].start :
                          text[i] \in _LEADING_STRIP
                   /\ \A k \in anchors.prefix.first_tok..anchors.prefix.last_tok :
                          toks[k].start <= _MAX_PREFIX_CHARS
            /\ anchors.outro # <<>> =>
                   /\ anchors.suffix.found
                   /\ \A k \in anchors.suffix.first_tok..anchors.suffix.last_tok :
                          Len(text) - toks[k].end <= _MAX_SUFFIX_CHARS

\* an intro whose last matched token starts at offset 200 and an outro whose
\* first matched token ends 200 characters before the end were found
C27_Witness ==
    /\ tpc = "anchored"
    /\ anchors.intro # <<>>
    /\ anchors.outro # <<>>
    /\ \E toks \in {_tokenize_with_pos(text)} :
           /\ toks[anchors.prefix.last_tok].start = _MAX_PREFIX_CHARS
           /\ Len(text) - toks[anchors.suffix.first_tok].end = _MAX_SUFFIX_CHARS

\* t ends with the span s and w characters of _TRAILING_STRIP after it
EndsWithSpan(t, s, w) ==
    /\ Len(t) >= Len(s) + w
    /\ \A i \in (Len(t) - w + 1)..Len(t) : t[i] \in _TRAILING_STRIP
    /\ Slice(t, Len(t) - w - Len(s), Len(t) - w) = s

\* C28: when strip_ai_wrapping reports an outro, what it takes off the end of
\* the text is the reported span and the white space and quotes after it (and
\* the white space and quotes that then end the text): what is left is the
\* text before the span, with no character of the span in it.
C28_OutroSpanRemoved ==
    (tpc \in {"stripped", "scored"} /\ stripped.unwrap.outro_text # <<>>) =>
        \E w \in 0..Len(AfterIntro) :
            /\ EndsWithSpan(AfterIntro, stripped.unwrap.outro_text, w)
            /\ stripped.unwrap.body =
                   RStrip(Slice(AfterIntro, 0,
                                Len(AfterIntro) - w - Len(stripped.unwrap.outro_text)),
                          _TRAILING_STRIP)

\* the records of the files the running pass has read, in the order of the reads
ReadRecords ==
    LET Keep(h) == h.pass = pass /\ h.read
    IN  SelectSeq(hist, Keep)

\* the entries of the texts read, computed from the texts alone
EntriesOf(recs) ==
    [k \in 1..Len(recs) |-> ReportOf(recs[k].file, recs[k].text).entry]

\* the Scan Result as a function of the texts read and the threshold alone
ResultOf(recs, has_threshold, threshold) ==
    LET Over(h) == FracLeq(ReportOf(h.file, h.text).confidence, Frac(threshold, 100))
    IN  [emitted |-> TRUE,
         all |-> EntriesOf(recs),
         has_over |-> has_threshold,
         over |-> IF has_threshold THEN EntriesOf(SelectSeq(recs, Over)) ELSE <<>>]

\* C29: the Scan Result does not depend on the remediation flag and the log
\* path.  A turn of the loop leaves the files still to be read as they were
\* when the pass began, and the result of a pass is ResultOf the texts read
\* and the threshold, in which neither option occurs.
C29_ResultIgnoresSideEffectOptions ==
    /\ [](pc = "done" =>
              output = ResultOf(ReadRecords, opts.has_threshold, opts.threshold))
    /\ [][(pc = "scan" /\ queue # <<>>) =>
              \A k \in 2..Len(queue) : disk'[queue[k]] = disk[queue[k]]]_vars

\* a pass with remediation and a log path has ended: it rewrote the first of
\* two files with another content, wrote log lines, and its result has
\* entries for both files, one of them in over
C29_Witness ==
    /\ pc = "done"
    /\ opts.apply_remediation
    /\ opts.log_path
    /\ opts.has_threshold
    /\ log # <<>>
    /\ Len(output.all) = 2
    /\ Len(output.over) = 1
    /\ Len(ReadRecords) = 2
    /\ ReadRecords[1].write = "ok"
    /\ ReadRecords[1].data # ReadRecords[1].text

\* C30: within a pass the log is written only after the last file.  No step
\* that leaves the pass in its loop changes the log; the step that changes
\* the log is the one that ends the pass, with no file left to visit, and it
\* writes no file.  So while the first pass is in its loop the log is empty,
\* and the files the pass has rewritten hold what was written.
C30_LogAfterLastFile ==
    /\ [][pc' = "scan" => log' = log]_vars
    /\ [][log' # log =>
              /\ pc = "scan"
              /\ queue = <<>>
              /\ pc' = "done"
              /\ disk' = disk
              /\ hist' = hist]_vars
    /\ []((pc = "scan" /\ pass = 1) => log = <<>>)
    /\ [](pc = "scan" =>
              \A k \in ThisPass :
                  hist[k].write = "ok" => disk[hist[k].file] = hist[k].data)

\* a pass with remediation and a log path is in its loop with a file left to
\* visit: it has removed an intro from a file and rewritten the file, and no
\* line is in the log
C30_Witness ==
    /\ pc = "scan"
    /\ queue # <<>>
    /\ opts.apply_remediation
    /\ opts.log_path
    /\ log = <<>>
    /\ \E k \in ThisPass :
           /\ hist[k].write = "ok"
           /\ hist[k].intro_text # <<>>
           /\ hist[k].data # hist[k].text
           /\ disk[hist[k].file] = hist[k].data

====
